---- MODULE Spec2Model ----
(***************************************************************************)
(* Model of packages/angular/cli/src/commands/update/update-workflow.ts:   *)
(* the range extender angularMajorCompatGuarantee and the UpdateWorkflow   *)
(* class (resolver, group and peer expander, peer validator, analyze).     *)
(***************************************************************************)
EXTENDS Integers, Sequences, FiniteSets, TLC

(***************************************************************************)
(* Semantic versions and ranges, as the semver package computes them.      *)
(* A version is <<major, minor, patch, pre>>; pre orders the prerelease    *)
(* tags of one major.minor.patch: "-0" < "-alpha.0" < "-alpha.1" < none.   *)
(***************************************************************************)
PreZero == 0
PreAlpha0 == 1
PreAlpha1 == 2
Release == 3

NoVersion == <<>>

\* F(x) with x evaluated once: a local constant of the source (const x = ...)
With(F(_), x) == CHOOSE y \in {F(v) : v \in {x}} : TRUE

V(major, minor, patch) == <<major, minor, patch, Release>>

IsPrerelease(v) == v[4] # Release

\* semver.lt / semver.lte / semver.gt: precedence of two versions
VLt(x, y) ==
    \E a \in {x}, b \in {y} :
       \/ a[1] < b[1]
       \/ a[1] = b[1] /\ a[2] < b[2]
       \/ a[1] = b[1] /\ a[2] = b[2] /\ a[3] < b[3]
       \/ a[1] = b[1] /\ a[2] = b[2] /\ a[3] = b[3] /\ a[4] < b[4]

VLte(x, y) == \E a \in {x}, b \in {y} : a = b \/ VLt(a, b)

VGt(a, b) == VLt(b, a)

\* A comparator is [op, v]; op "*" is the comparator that matches anything.
Cmp(op, v) == [op |-> op, v |-> v]

AnyCmp == Cmp("*", <<0, 0, 0, Release>>)

\* Comparator.test
CmpTest(c, v) ==
    CASE c.op = "*"  -> TRUE
      [] c.op = "="  -> v = c.v
      [] c.op = "<"  -> VLt(v, c.v)
      [] c.op = "<=" -> VLte(v, c.v)
      [] c.op = ">"  -> VGt(v, c.v)
      [] c.op = ">=" -> VLte(c.v, v)

\* Range.testSet: every comparator of the set accepts the version, and a
\* prerelease version is accepted only when a comparator of the set carries a
\* prerelease of the same major.minor.patch (unless includePrerelease).
TestSet(set, v, includePrerelease) ==
    /\ \A i \in 1..Len(set) : CmpTest(set[i], v)
    /\ (IsPrerelease(v) /\ ~includePrerelease) =>
          \E i \in 1..Len(set) :
              /\ set[i].op # "*"
              /\ IsPrerelease(set[i].v)
              /\ set[i].v[1] = v[1] /\ set[i].v[2] = v[2] /\ set[i].v[3] = v[3]

\* A range is [valid, sets]: the comparator sets joined by "||"; a string that
\* semver cannot parse is the range with valid = FALSE.
Range(sets) == [valid |-> TRUE, sets |-> sets]

InvalidRange == [valid |-> FALSE, sets |-> <<>>]

\* semver.validRange(range) is non-null
ValidRange(range) == range.valid

\* semver.satisfies(version, range, {includePrerelease}); false when the range
\* does not parse
Satisfies(version, rangeArg, includePrerelease) ==
    \E v \in {version}, range \in {rangeArg} :
       /\ range.valid
       /\ v # NoVersion
       /\ \E i \in 1..Len(range.sets) : TestSet(range.sets[i], v, includePrerelease)

\* "^major.minor.patch[-pre]" for major >= 1
Caret(major, minor, patch, pre) ==
    <<Cmp(">=", <<major, minor, patch, pre>>), Cmp("<", <<major + 1, 0, 0, PreZero>>)>>

\* an exact version "major.minor.patch"
Exact(v) == <<Cmp("=", v)>>

\* the comparator of a set with the greatest version, the first one on a tie
\* (ranges/outside.js: high = high || comparator; if gt(c, high) high = c)
RECURSIVE HighOf(_, _, _)
HighOf(set, i, high) ==
    IF i > Len(set) THEN high
    ELSE LET c == IF set[i].op = "*" THEN Cmp(">=", <<0, 0, 0, Release>>) ELSE set[i]
         IN HighOf(set, i + 1, IF VGt(c.v, high.v) THEN c ELSE high)

\* the comparator with the least version, the first one on a tie
RECURSIVE LowOf(_, _, _, _)
LowOf(set, i, high, low) ==
    IF i > Len(set) THEN low
    ELSE LET c == IF set[i].op = "*" THEN Cmp(">=", <<0, 0, 0, Release>>) ELSE set[i]
         IN IF VGt(c.v, high.v) THEN LowOf(set, i + 1, c, low)
            ELSE IF VLt(c.v, low.v) THEN LowOf(set, i + 1, high, c)
            ELSE LowOf(set, i + 1, high, low)

FirstCmp(set) == IF set[1].op = "*" THEN Cmp(">=", <<0, 0, 0, Release>>) ELSE set[1]

\* ranges/outside.js: the high and the low comparator of every comparator set
OutsideBounds(range) ==
    [i \in 1..Len(range.sets) |->
        [high |-> HighOf(range.sets[i], 1, FirstCmp(range.sets[i])),
         low  |-> LowOf(range.sets[i], 1, FirstCmp(range.sets[i]), FirstCmp(range.sets[i]))]]

\* ranges/outside.js for '>': the version does not satisfy the range, no set
\* has a lower bound as its high comparator, and the version is not at or
\* below the low comparator of any set
Outside(v, range, bounds) ==
    /\ ~Satisfies(v, range, FALSE)
    /\ \A i \in 1..Len(bounds) :
          /\ bounds[i].high.op \notin {">", ">="}
          /\ ~(bounds[i].low.op \in {"=", ">"} /\ VLte(v, bounds[i].low.v))
          /\ ~(bounds[i].low.op = ">=" /\ VLt(v, bounds[i].low.v))

\* semver.gtr(version, range): the version is above every comparator set
Gtr(version, rangeArg) ==
    \E v \in {version}, range \in {rangeArg} :
       \E bounds \in {OutsideBounds(range)} : Outside(v, range, bounds)

\* the greatest version of a set, NoVersion for the empty set
MaxVersion(S) == IF S = {} THEN NoVersion ELSE CHOOSE v \in S : \A w \in S : VLte(w, v)

\* semver.maxSatisfying(versions, range); null when the range does not parse
MaxSatisfying(versions, range) ==
    With(MaxVersion, {v \in versions : Satisfies(v, range, FALSE)})

(***************************************************************************)
(* angularMajorCompatGuarantee                                             *)
(***************************************************************************)
MajorCap == 99
MinorCount == 20

\* while (!semver.gtr(major + '.0.0', newRange)) { major++; if (major >= 99) return }
\* the major the loop stops at when it starts at major: the least one below the
\* cap that is above the range, 0 when the cap is reached
FirstMajorAbove(range, major) ==
    With(LAMBDA above : IF above = {} THEN 0
                        ELSE CHOOSE m \in above : \A k \in above : m <= k,
         With(LAMBDA bounds : {m \in major..(MajorCap - 1) : Outside(V(m, 0, 0), range, bounds)},
              OutsideBounds(range)))

\* range + " || ^major.0.0-alpha.0  || ... || ^major.19.0-alpha.0 "
AlphaSets(major) == [minor \in 1..MinorCount |-> Caret(major, minor - 1, 0, PreAlpha0)]

\* a variant that appends the alternatives also when the cap was reached
WithMajor_AtCap(range, major) == Range(range.sets \o AlphaSets(major))

WithMajor(range, major) ==
    IF major = 0 THEN range ELSE Range(range.sets \o AlphaSets(major))

AngularMajorCompatGuarantee(range) ==
    IF ~ValidRange(range) THEN range
    ELSE With(LAMBDA major : WithMajor(range, major), FirstMajorAbove(range, 1))

VARIABLES
    pc,               \* where analyze is
    packages,         \* the request map: name -> version token
    packages0,        \* the request map as analyze received it
    allDependencies,  \* the workspace map: name -> declared range
    installedMode,    \* node_modules: "local", "unreadable" or "missing"
    registry,         \* what is published: "full", or "partial" (no common 17.0.0)
    providerResolves, \* whether getRegistryManifest answers a range with a manifest
    force,            \* analyze's force argument, <<>> until it is read
    next,             \* analyze's next argument, <<>> until it is read
    pending,          \* getRegistryMetadata calls in flight
    fetched,          \* settled calls: name -> TRUE (metadata) or FALSE (threw)
    settled,          \* the names of the settled calls, in the order they settled
    universe,         \* npmPackageJsonMap, its keys in insertion order
    idx,              \* position of the for loops over npmPackageJsonMap
    lastPackagesSize,
    packageInfoMap,   \* name -> PackageInfo
    peersErrors,      \* what _validateUpdatePackages returned
    logged,           \* the logger.error and logger.warn calls of the validator
    thrown,           \* the error analyze threw
    manifestFetches,  \* name -> getRegistryManifest calls for its target version
    crange,           \* angularMajorCompatGuarantee: its argument
    cresult           \* angularMajorCompatGuarantee: its result

vars == <<pc, packages, packages0, allDependencies, installedMode, registry,
          providerResolves, force, next, pending, fetched, settled, universe, idx,
          lastPackagesSize, packageInfoMap, peersErrors, logged, thrown, manifestFetches,
          crange, cresult>>

(***************************************************************************)
(* The registry, the workspace and the installed packages that analyze     *)
(* reads through the package manager.  "core" stands for @angular/core,    *)
(* "common" for @angular/common, "lib" for a third-party library, "rxjs"   *)
(* for a peer that is neither requested nor declared, "plugin" for a       *)
(* package with a peer dependency on the library, and "codelyzer" for the  *)
(* deprecated package of that name.                                        *)
(***************************************************************************)
MaxRequested == 2
MaxUndeclared == 1
MaxFailed == 1

Order == <<"core", "common", "lib", "plugin", "codelyzer">>

\* the packages the request maps and the workspace maps are drawn over
Names == {"core", "common", "lib"}

AllNames == {Order[i] : i \in 1..Len(Order)}

\* the keys of a Map whose keys are S, in insertion order
KeysInOrder(S) == SelectSeq(Order, LAMBDA n : n \in S)

Tokens == {"", "latest", "next", "^16.0.0"}

\* the semver reading of the strings that occur as ranges and version tokens
ParseRange(str) ==
    CASE str = ""         -> Range(<<<<AnyCmp>>>>)
      [] str = "^1.0.0"   -> Range(<<Caret(1, 0, 0, Release)>>)
      [] str = "^2.0.0"   -> Range(<<Caret(2, 0, 0, Release)>>)
      [] str = "^7.0.0"   -> Range(<<Caret(7, 0, 0, Release)>>)
      [] str = "^16.0.0"  -> Range(<<Caret(16, 0, 0, Release)>>)
      [] str = "^17.0.0"  -> Range(<<Caret(17, 0, 0, Release)>>)
      [] str = "17.0.0"   -> Range(<<Exact(V(17, 0, 0))>>)
      [] str = ">=16.0.0" -> Range(<<<<Cmp(">=", V(16, 0, 0))>>>>)
      [] OTHER            -> InvalidRange

\* PackageMetadata.versions
Versions(name) ==
    CASE name = "core"   -> {V(16, 0, 0), V(17, 0, 0), <<18, 0, 0, PreAlpha0>>}
      [] name = "common" -> IF registry = "partial" THEN {V(16, 0, 0)}
                            ELSE {V(16, 0, 0), V(17, 0, 0)}
      [] name = "lib"    -> {V(2, 0, 0), V(3, 0, 0)}
      [] name = "plugin" -> {V(1, 0, 0), V(2, 0, 0)}
      [] name = "codelyzer" -> {V(1, 0, 0), V(2, 0, 0), V(3, 0, 0)}
      [] OTHER -> {}

\* PackageMetadata['dist-tags']; the metadata of codelyzer carries no tag
DistTags(name) ==
    CASE name = "core"   -> [t \in {"latest", "next"} |->
                                IF t = "latest" THEN V(17, 0, 0) ELSE <<18, 0, 0, PreAlpha0>>]
      [] name = "common" -> [t \in {"latest"} |->
                                IF registry = "partial" THEN V(16, 0, 0) ELSE V(17, 0, 0)]
      [] name = "lib"    -> [t \in {"latest"} |-> V(3, 0, 0)]
      [] name = "plugin" -> [t \in {"latest"} |-> V(2, 0, 0)]
      [] OTHER           -> [t \in {} |-> NoVersion]

\* the version getInstalledPackage reports, when the package is installed
InstalledVersion(name) ==
    CASE name = "core"   -> V(16, 0, 0)
      [] name = "common" -> V(16, 0, 0)
      [] name = "lib"    -> V(1, 0, 0)
      [] name = "plugin" -> V(1, 0, 0)
      [] name = "codelyzer" -> V(2, 0, 0)
      [] OTHER -> NoVersion

\* the range the workspace package.json declares for a package it depends on
WorkspaceRange(name) ==
    CASE name = "core"   -> "^16.0.0"
      [] name = "common" -> "^16.0.0"
      [] name = "codelyzer" -> "^2.0.0"
      [] OTHER -> "^1.0.0"

\* the packageGroup value of an ng-update block: absent, an array of strings,
\* an object of strings, or anything else (here the array ["core", 42])
NoGroup == [kind |-> "none", names |-> <<>>, values |-> <<>>]

ArrayGroup(names) == [kind |-> "array", names |-> names, values |-> <<>>]

ObjectGroup(names, values) == [kind |-> "object", names |-> names, values |-> values]

MalformedGroup == [kind |-> "malformed", names |-> <<"core">>, values |-> <<>>]

\* PackageManifest: version, peerDependencies (in key order), the peers that
\* peerDependenciesMeta marks optional, ng-update.packageGroup
Manifest(version, peers, optional, group) ==
    [version |-> version, peers |-> peers, optional |-> optional, group |-> group]

NoManifest == Manifest(NoVersion, <<>>, {}, NoGroup)

\* the manifest of name@version, on disk and in the registry alike
ManifestOf(name, v) ==
    CASE name = "core" /\ v \in {V(16, 0, 0), V(17, 0, 0)} ->
            Manifest(v, <<<<"rxjs", "^7.0.0">>>>, {}, ArrayGroup(<<"core", "common">>))
      [] name = "core" /\ v = <<18, 0, 0, PreAlpha0>> ->
            Manifest(v, <<<<"rxjs", "^7.0.0">>>>, {},
                     ObjectGroup(<<"core", "common">>, <<"next", "latest">>))
      [] name = "common" /\ v = V(16, 0, 0) ->
            Manifest(v, <<<<"core", "^16.0.0">>, <<"zone.js", "^1.0.0">>>>, {"zone.js"},
                     ArrayGroup(<<"core", "common">>))
      [] name = "common" /\ v = V(17, 0, 0) ->
            Manifest(v, <<<<"core", "^17.0.0">>, <<"zone.js", "^1.0.0">>>>, {"zone.js"},
                     ArrayGroup(<<"core", "common">>))
      [] name = "lib" /\ v = V(1, 0, 0) ->
            Manifest(v, <<<<"core", "^16.0.0">>>>, {}, NoGroup)
      [] name = "lib" /\ v = V(2, 0, 0) ->
            Manifest(v, <<<<"core", "^16.0.0">>, <<"common", "^16.0.0">>>>, {}, NoGroup)
      [] name = "lib" /\ v = V(3, 0, 0) ->
            Manifest(v, <<<<"common", "^17.0.0">>, <<"core", ">=16.0.0">>>>, {}, MalformedGroup)
      [] name = "plugin" /\ v \in {V(1, 0, 0), V(2, 0, 0)} ->
            Manifest(v, <<<<"lib", "^2.0.0">>, <<"common", "^16.0.0">>>>, {}, NoGroup)
      [] name = "codelyzer" /\ v \in {V(1, 0, 0), V(2, 0, 0), V(3, 0, 0)} ->
            Manifest(v, <<<<"lib", "^1.0.0">>, <<"core", "^16.0.0">>>>, {}, NoGroup)
      [] OTHER -> NoManifest

(***************************************************************************)
(* The package manager (external collaborator)                             *)
(***************************************************************************)
\* getRegistryManifest(name, version) for an exact version
RegistryManifest(name, v) ==
    IF v \in Versions(name) THEN ManifestOf(name, v) ELSE NoManifest

\* getRegistryManifest(name, token) for a token that is a range or an unknown
\* tag: the provider either resolves it to the best match or finds nothing
RegistryManifestForSpec(name, token) ==
    IF providerResolves
    THEN With(LAMBDA v : RegistryManifest(name, v),
              MaxSatisfying(Versions(name), ParseRange(token)))
    ELSE NoManifest

(***************************************************************************)
(* _getUpdateMetadata                                                      *)
(***************************************************************************)
\* the keys of UpdateMetadata.packageGroup, in order
UpdatePackageGroup(manifest) ==
    IF manifest.group.kind \in {"array", "object"} THEN manifest.group.names ELSE <<>>

\* UpdateMetadata.packageGroupName ("" when undefined)
PackageGroupName(manifest) ==
    IF UpdatePackageGroup(manifest) = <<>> THEN "" ELSE UpdatePackageGroup(manifest)[1]

(***************************************************************************)
(* _buildPackageInfo                                                       *)
(***************************************************************************)
Info(err, installed, target) == [err |-> err, installed |-> installed, target |-> target]

TokenOf(pkgs, name) == IF name \in DOMAIN pkgs THEN pkgs[name] ELSE ""

\* a variant of lines 323-332 that tests for the literal 'next' before it looks
\* the token up among the dist-tags
RequestedTarget_LatestFirst(pkgs, name) ==
    LET token == TokenOf(pkgs, name)
        tags  == DistTags(name)
    IN IF token = "" THEN NoVersion
       ELSE IF token = "next"
            THEN (IF "latest" \in DOMAIN tags THEN tags["latest"] ELSE NoVersion)
       ELSE IF token \in DOMAIN tags THEN tags[token]
       ELSE MaxSatisfying(Versions(name), ParseRange(token))

\* a variant of lines 323-332 in which a specifier that is neither a tag of
\* the package nor a range ends with the highest published version
RequestedTarget_AnyVersion(pkgs, name) ==
    LET token == TokenOf(pkgs, name)
        tags  == DistTags(name)
    IN IF token = "" THEN NoVersion
       ELSE IF token \in DOMAIN tags THEN tags[token]
       ELSE IF token = "next" /\ "latest" \in DOMAIN tags THEN tags["latest"]
       ELSE IF ValidRange(ParseRange(token))
            THEN MaxSatisfying(Versions(name), ParseRange(token))
       ELSE MaxVersion(Versions(name))

\* a variant of lines 323-332 that reads an empty specifier as the latest tag
RequestedTarget_EmptyIsLatest(pkgs, name) ==
    LET token == IF TokenOf(pkgs, name) = "" THEN "latest" ELSE TokenOf(pkgs, name)
        tags  == DistTags(name)
    IN IF name \notin DOMAIN pkgs THEN NoVersion
       ELSE IF token \in DOMAIN tags THEN tags[token]
       ELSE IF token = "next"
            THEN (IF "latest" \in DOMAIN tags THEN tags["latest"] ELSE NoVersion)
       ELSE MaxSatisfying(Versions(name), ParseRange(token))

\* lines 323-332: the version the request token of the package resolves to
RequestedTarget(pkgs, name) ==
    LET token == TokenOf(pkgs, name)
        tags  == DistTags(name)
    IN IF token = "" THEN NoVersion
       ELSE IF token \in DOMAIN tags THEN tags[token]
       ELSE IF token = "next"
            THEN (IF "latest" \in DOMAIN tags THEN tags["latest"] ELSE NoVersion)
       ELSE MaxSatisfying(Versions(name), ParseRange(token))

\* lines 268-286: installedPackage?.version, replaced by the version of the
\* manifest on disk when that can be read
InstalledPackageVersion(name) ==
    IF installedMode = "missing" THEN NoVersion ELSE InstalledVersion(name)

\* lines 296-299: the installed version, from disk or else the best version of
\* the registry for the declared range
ResolveInstalled(deps, name) ==
    IF InstalledPackageVersion(name) # NoVersion THEN InstalledPackageVersion(name)
    ELSE MaxSatisfying(Versions(name), ParseRange(deps[name]))

\* a variant of lines 301-361 without the test of lines 334-337
ResolveInfo_KeepAll(name, installed, requested) ==
    LET localRead == InstalledPackageVersion(name) # NoVersion /\ installedMode = "local"
    IN IF installed = NoVersion THEN Info("no_version", NoVersion, NoVersion)
       ELSE IF ~localRead /\ RegistryManifest(name, installed) = NoManifest
            THEN Info("no_manifest", installed, NoVersion)
       ELSE IF requested # NoVersion /\ RegistryManifest(name, requested) # NoManifest
            THEN Info("", installed, requested)
       ELSE Info("", installed, NoVersion)

\* lines 301-361, with the installed version and the requested target known
ResolveInfo(name, installed, requested) ==
    LET localRead == InstalledPackageVersion(name) # NoVersion /\ installedMode = "local"
        target    == IF requested # NoVersion /\ VLte(requested, installed)
                     THEN NoVersion ELSE requested
    IN IF installed = NoVersion THEN Info("no_version", NoVersion, NoVersion)
       ELSE IF ~localRead /\ RegistryManifest(name, installed) = NoManifest
            THEN Info("no_manifest", installed, NoVersion)
       ELSE IF target # NoVersion /\ RegistryManifest(name, target) # NoManifest
            THEN Info("", installed, target)
       ELSE Info("", installed, NoVersion)

\* a variant of _buildPackageInfo without the check of lines 264-266
BuildPackageInfo_Undeclared(pkgs, deps, name) ==
    IF name \notin DOMAIN deps
    THEN ResolveInfo(name, InstalledVersion(name), RequestedTarget(pkgs, name))
    ELSE With(LAMBDA installed :
                 With(LAMBDA requested : ResolveInfo(name, installed, requested),
                      RequestedTarget(pkgs, name)),
              ResolveInstalled(deps, name))

BuildPackageInfo(pkgs, deps, name) ==
    IF name \notin DOMAIN deps THEN Info("not_declared", NoVersion, NoVersion)
    ELSE With(LAMBDA installed :
                 With(LAMBDA requested : ResolveInfo(name, installed, requested),
                      RequestedTarget(pkgs, name)),
              ResolveInstalled(deps, name))

\* PackageInfo.installed.packageJson and PackageInfo.target.packageJson
InstalledManifest(name, info) == ManifestOf(name, info.installed)

TargetManifest(name, info) == ManifestOf(name, info.target)

\* (installedInfo.target || installedInfo.installed).packageJson
CurrentManifest(name, info) ==
    IF info.target # NoVersion THEN TargetManifest(name, info) ELSE InstalledManifest(name, info)

(***************************************************************************)
(* _addPackageGroup and _addPeerDependencies                               *)
(***************************************************************************)
\* lines 375-384 and 442-451: the manifest whose group and peers are expanded
ExpansionManifest(pkgs, name, info) ==
    LET token == pkgs[name]
        tags  == DistTags(name)
    IN IF info.target # NoVersion THEN TargetManifest(name, info)
       ELSE IF token \in DOMAIN tags THEN RegistryManifest(name, tags[token])
       ELSE RegistryManifestForSpec(name, token)

\* a variant of lines 398-421 that takes the strings of any array
PackageGroupNormalized_Lenient(manifest, maybePackage) ==
    [i \in 1..Len(manifest.group.names) |-> <<manifest.group.names[i], maybePackage>>]

\* lines 398-421: packageGroupNormalized as a sequence of <<member, token>>;
\* empty when the group is absent or malformed
PackageGroupNormalized(manifest, maybePackage) ==
    LET g == manifest.group
    IN CASE g.kind = "array"  -> [i \in 1..Len(g.names) |-> <<g.names[i], maybePackage>>]
         [] g.kind = "object" -> [i \in 1..Len(g.names) |-> <<g.names[i], g.values[i]>>]
         [] OTHER             -> <<>>

\* a variant of lines 423-427 that stops after the first member of the group
SetGroupMembers_FirstOnly(pkgs, deps, group, i) ==
    IF group = <<>> \/ i > 1 THEN pkgs
    ELSE IF group[1][1] \notin DOMAIN pkgs /\ group[1][1] \in DOMAIN deps
         THEN pkgs @@ (group[1][1] :> group[1][2])
         ELSE pkgs

\* a variant of lines 423-427 without the test packages.has(name)
SetGroupMembers_Overwrite(pkgs, deps, group, i) ==
    LET members == {k \in i..Len(group) : group[k][1] \in DOMAIN deps}
    IN [n \in DOMAIN pkgs \cup {group[k][1] : k \in members} |->
           IF \E k \in members : group[k][1] = n
           THEN group[CHOOSE k \in members : group[k][1] = n][2]
           ELSE pkgs[n]]

\* lines 423-427
RECURSIVE SetGroupMembers(_, _, _, _)
SetGroupMembers(pkgs, deps, group, i) ==
    IF i > Len(group) THEN pkgs
    ELSE LET name == group[i][1]
         IN IF name \notin DOMAIN pkgs /\ name \in DOMAIN deps
            THEN SetGroupMembers(pkgs @@ (name :> group[i][2]), deps, group, i + 1)
            ELSE SetGroupMembers(pkgs, deps, group, i + 1)

\* what an expansion step leaves: the request map, and the error it threw with
\* the package the error names ("" when it returned)
Outcome(err, name, pkgs) == [err |-> err, name |-> name, packages |-> pkgs]

\* lines 375-428, with the PackageInfo known
AddGroupOf(pkgs, deps, name, info) ==
    IF info.err # "" THEN Outcome(info.err, name, pkgs)
    ELSE With(LAMBDA group : Outcome("", "", SetGroupMembers(pkgs, deps, group, 1)),
              PackageGroupNormalized(ExpansionManifest(pkgs, name, info), pkgs[name]))

AddPackageGroup(pkgs, deps, name) ==
    IF TokenOf(pkgs, name) = "" THEN Outcome("", "", pkgs)
    ELSE With(LAMBDA info : AddGroupOf(pkgs, deps, name, info),
              BuildPackageInfo(pkgs, deps, name))

\* a variant of lines 457-471 without the test of the installed version
SetPeers_Unconditional(pkgs, deps, known, peers, i) ==
    Outcome("", "",
            [n \in DOMAIN pkgs \cup {peers[k][1] : k \in i..Len(peers)} |->
                IF n \in DOMAIN pkgs THEN pkgs[n]
                ELSE peers[CHOOSE k \in i..Len(peers) : peers[k][1] = n][2]])

\* lines 457-471
RECURSIVE SetPeers(_, _, _, _, _)
SetPeers(pkgs, deps, known, peers, i) ==
    IF i > Len(peers) THEN Outcome("", "", pkgs)
    ELSE LET peer  == peers[i][1]
             range == peers[i][2]
         IN IF peer \in DOMAIN pkgs THEN SetPeers(pkgs, deps, known, peers, i + 1)
            ELSE IF peer \in known
            THEN With(LAMBDA peerInfo :
                        IF peerInfo.err # "" THEN Outcome(peerInfo.err, peer, pkgs)
                        ELSE IF Satisfies(peerInfo.installed, ParseRange(range), FALSE)
                        THEN SetPeers(pkgs, deps, known, peers, i + 1)
                        ELSE SetPeers(pkgs @@ (peer :> range), deps, known, peers, i + 1),
                      BuildPackageInfo(pkgs, deps, peer))
            ELSE SetPeers(pkgs @@ (peer :> range), deps, known, peers, i + 1)

\* lines 442-471, with the PackageInfo known
AddPeersOf(pkgs, deps, name, known, info) ==
    IF info.err # "" THEN Outcome(info.err, name, pkgs)
    ELSE With(LAMBDA peers : SetPeers(pkgs, deps, known, peers, 1),
              ExpansionManifest(pkgs, name, info).peers)

AddPeerDependencies(pkgs, deps, name, known) ==
    IF TokenOf(pkgs, name) = "" THEN Outcome("", "", pkgs)
    ELSE With(LAMBDA info : AddPeersOf(pkgs, deps, name, known, info),
              BuildPackageInfo(pkgs, deps, name))

(***************************************************************************)
(* The peer dependency validator                                           *)
(***************************************************************************)
\* knownPeerCompatibleList: '@angular/core' -> angularMajorCompatGuarantee
KnownPeerCompatibleList == {"core"}

\* a variant of _validateReversePeerDependencies without the list of lines
\* 173-182
IgnoredPackages_None == {}

\* ignoredPackages of _validateReversePeerDependencies
IgnoredPackages ==
    {"codelyzer", "@schematics/update", "@angular-devkit/build-ng-packagr", "tsickle",
     "@nguniversal/builders"}

\* a variant of _updatePeerVersion that never looks into the table
UpdatePeerVersion_Plain(infoMap, name, range) == ParseRange(range)

\* _updatePeerVersion: the range to test, after the transform of the table
UpdatePeerVersion(infoMap, name, range) ==
    IF name \notin DOMAIN infoMap THEN ParseRange(range)
    ELSE LET info      == infoMap[name]
             groupName == IF info.target # NoVersion
                          THEN PackageGroupName(TargetManifest(name, info))
                          ELSE PackageGroupName(InstalledManifest(name, info))
             key       == IF groupName # "" THEN groupName ELSE name
         IN IF key \in KnownPeerCompatibleList
            THEN With(AngularMajorCompatGuarantee, ParseRange(range))
            ELSE ParseRange(range)

LogEntry(level, kind, pkg, peer) == [level |-> level, kind |-> kind, pkg |-> pkg, peer |-> peer]

Verdict(failed, logs) == [failed |-> failed, logs |-> logs]

\* logger.warn(`packageGroup metadata of package ${name} is malformed. Ignoring.`)
MalformedWarning(name) == LogEntry("warn", "malformed", name, "")

\* lines 235, 346 and 357: the warnings of _getUpdateMetadata when a PackageInfo
\* is built
InfoWarnings(name, info) ==
    IF /\ info.err = ""
       /\ \/ InstalledManifest(name, info).group.kind = "malformed"
          \/ info.target # NoVersion /\ TargetManifest(name, info).group.kind = "malformed"
    THEN {MalformedWarning(name)}
    ELSE {}

\* the warnings of one _addPackageGroup call: those of _buildPackageInfo and the
\* one of lines 415-420
GroupWarnings(pkgs, deps, name) ==
    IF TokenOf(pkgs, name) = "" THEN {}
    ELSE With(LAMBDA info :
                 IF info.err # "" THEN {}
                 ELSE InfoWarnings(name, info) \cup
                         (IF ExpansionManifest(pkgs, name, info).group.kind = "malformed"
                          THEN {MalformedWarning(name)} ELSE {}),
              BuildPackageInfo(pkgs, deps, name))

\* the warnings of one _addPeerDependencies call: those of _buildPackageInfo for
\* the package and for its peers up to the first one that cannot be resolved
PeerWarnings(pkgs, deps, name, known) ==
    IF TokenOf(pkgs, name) = "" THEN {}
    ELSE With(LAMBDA info :
                 IF info.err # "" THEN {}
                 ELSE LET peers  == ExpansionManifest(pkgs, name, info).peers
                          built  == {i \in 1..Len(peers) :
                                        peers[i][1] \in known \ DOMAIN pkgs}
                          broken == {i \in built :
                                        BuildPackageInfo(pkgs, deps, peers[i][1]).err # ""}
                      IN InfoWarnings(name, info) \cup
                            UNION {InfoWarnings(peers[i][1],
                                                BuildPackageInfo(pkgs, deps, peers[i][1])) :
                                      i \in {k \in built : \A b \in broken : k < b}},
              BuildPackageInfo(pkgs, deps, name))

\* lines 129-132
PeerVersion(peerInfo) ==
    IF peerInfo.target # NoVersion THEN peerInfo.target ELSE peerInfo.installed

\* a variant of _validateForwardPeerDependencies that fails on a missing peer
RECURSIVE ValidateForward_MissingFails(_, _, _, _, _, _, _)
ValidateForward_MissingFails(name, infoMap, peers, optional, nextFlag, i, acc) ==
    IF i > Len(peers) THEN acc
    ELSE IF peers[i][1] \notin DOMAIN infoMap
              \/ ~Satisfies(PeerVersion(infoMap[peers[i][1]]), ParseRange(peers[i][2]),
                            nextFlag)
         THEN ValidateForward_MissingFails(name, infoMap, peers, optional, nextFlag, i + 1,
                 Verdict(TRUE, acc.logs \cup {LogEntry("error", "forward", name, peers[i][1])}))
         ELSE ValidateForward_MissingFails(name, infoMap, peers, optional, nextFlag, i + 1,
                                           acc)

\* a variant of _validateForwardPeerDependencies that returns at the first
\* peer that is not satisfied
RECURSIVE ValidateForward_StopAtFirst(_, _, _, _, _, _, _)
ValidateForward_StopAtFirst(name, infoMap, peers, optional, nextFlag, i, acc) ==
    IF i > Len(peers) THEN acc
    ELSE IF peers[i][1] \notin DOMAIN infoMap
         THEN ValidateForward_StopAtFirst(name, infoMap, peers, optional, nextFlag, i + 1,
                 IF peers[i][1] \in optional THEN acc
                 ELSE Verdict(acc.failed,
                              acc.logs \cup {LogEntry("warn", "missing", name, peers[i][1])}))
         ELSE IF ~Satisfies(PeerVersion(infoMap[peers[i][1]]), ParseRange(peers[i][2]),
                            nextFlag)
         THEN Verdict(TRUE, acc.logs \cup {LogEntry("error", "forward", name, peers[i][1])})
         ELSE ValidateForward_StopAtFirst(name, infoMap, peers, optional, nextFlag, i + 1,
                                          acc)

\* a variant of _validateForwardPeerDependencies that tests no peer
ValidateForward_NoTest(name, infoMap, peers, optional, nextFlag, i, acc) == acc

\* _validateForwardPeerDependencies, from peer i on
RECURSIVE ValidateForward(_, _, _, _, _, _, _)
ValidateForward(name, infoMap, peers, optional, nextFlag, i, acc) ==
    IF i > Len(peers) THEN acc
    ELSE
      LET peer  == peers[i][1]
          range == peers[i][2]
      IN IF peer \notin DOMAIN infoMap
         THEN ValidateForward(name, infoMap, peers, optional, nextFlag, i + 1,
                 IF peer \in optional THEN acc
                 ELSE Verdict(acc.failed,
                              acc.logs \cup {LogEntry("warn", "missing", name, peer)}))
         ELSE IF ~Satisfies(PeerVersion(infoMap[peer]), ParseRange(range), nextFlag)
         THEN ValidateForward(name, infoMap, peers, optional, nextFlag, i + 1,
                 Verdict(TRUE, acc.logs \cup {LogEntry("error", "forward", name, peer)}))
         ELSE ValidateForward(name, infoMap, peers, optional, nextFlag, i + 1, acc)

\* a variant of _validateReversePeerDependencies that looks the transform up
\* by the dependent package instead of the peer (line 185)
RECURSIVE ValidateReverse_DependentKey(_, _, _, _, _, _, _)
ValidateReverse_DependentKey(name, version, infoMap, keys, nextFlag, j, k) ==
    IF j > Len(keys) THEN Verdict(FALSE, {})
    ELSE
      With(LAMBDA peers :
              IF k > Len(peers)
              THEN ValidateReverse_DependentKey(name, version, infoMap, keys, nextFlag,
                                                j + 1, 1)
              ELSE IF peers[k][1] # name \/ keys[j] \in IgnoredPackages
              THEN ValidateReverse_DependentKey(name, version, infoMap, keys, nextFlag,
                                                j, k + 1)
              ELSE IF ~Satisfies(version,
                                 UpdatePeerVersion(infoMap, keys[j], peers[k][2]),
                                 nextFlag)
              THEN Verdict(TRUE, {LogEntry("error", "reverse", keys[j], name)})
              ELSE ValidateReverse_DependentKey(name, version, infoMap, keys, nextFlag,
                                                j, k + 1),
           CurrentManifest(keys[j], infoMap[keys[j]]).peers)

\* _validateReversePeerDependencies, from entry j of the info map and peer k of
\* that entry on
RECURSIVE ValidateReverse(_, _, _, _, _, _, _)
ValidateReverse(name, version, infoMap, keys, nextFlag, j, k) ==
    IF j > Len(keys) THEN Verdict(FALSE, {})
    ELSE
      With(LAMBDA peers :
              IF k > Len(peers)
              THEN ValidateReverse(name, version, infoMap, keys, nextFlag, j + 1, 1)
              ELSE IF peers[k][1] # name \/ keys[j] \in IgnoredPackages
              THEN ValidateReverse(name, version, infoMap, keys, nextFlag, j, k + 1)
              ELSE IF ~Satisfies(version,
                                 UpdatePeerVersion(infoMap, peers[k][1], peers[k][2]),
                                 nextFlag)
              THEN Verdict(TRUE, {LogEntry("error", "reverse", keys[j], name)})
              ELSE ValidateReverse(name, version, infoMap, keys, nextFlag, j, k + 1),
           CurrentManifest(keys[j], infoMap[keys[j]]).peers)

\* lines 553-579: the two checks of one package that has a target
ValidatePackage(name, info, infoMap, keys, nextFlag) ==
    With(LAMBDA forward :
            With(LAMBDA reverse : Verdict(reverse.failed \/ forward.failed,
                                          forward.logs \cup reverse.logs),
                 ValidateReverse(name, info.target, infoMap, keys, nextFlag, 1, 1)),
         With(LAMBDA manifest :
                 ValidateForward(name, infoMap, manifest.peers, manifest.optional,
                                 nextFlag, 1, Verdict(FALSE, {})),
              TargetManifest(name, info)))

\* a variant of _validateUpdatePackages that assigns peerErrors without "||"
RECURSIVE ValidateUpdatePackages_Overwrite(_, _, _, _, _)
ValidateUpdatePackages_Overwrite(infoMap, keys, nextFlag, i, acc) ==
    IF i > Len(keys) THEN acc
    ELSE IF infoMap[keys[i]].target = NoVersion
         THEN ValidateUpdatePackages_Overwrite(infoMap, keys, nextFlag, i + 1, acc)
         ELSE With(LAMBDA one :
                      ValidateUpdatePackages_Overwrite(infoMap, keys, nextFlag, i + 1,
                         Verdict(one.failed, acc.logs \cup one.logs)),
                   ValidatePackage(keys[i], infoMap[keys[i]], infoMap, keys, nextFlag))

\* _validateUpdatePackages, from entry i of the info map on
RECURSIVE ValidateUpdatePackages(_, _, _, _, _)
ValidateUpdatePackages(infoMap, keys, nextFlag, i, acc) ==
    IF i > Len(keys) THEN acc
    ELSE
      LET name == keys[i]
          info == infoMap[name]
      IN IF info.target = NoVersion
         THEN ValidateUpdatePackages(infoMap, keys, nextFlag, i + 1, acc)
         ELSE With(LAMBDA one :
                      ValidateUpdatePackages(infoMap, keys, nextFlag, i + 1,
                         Verdict(one.failed \/ acc.failed, acc.logs \cup one.logs)),
                   ValidatePackage(name, info, infoMap, keys, nextFlag))

(***************************************************************************)
(* analyze                                                                 *)
(***************************************************************************)
EmptyMap == <<>>

Size(map) == Cardinality(DOMAIN map)

NoError == [kind |-> "", name |-> "", violations |-> {}]

\* new Error(...): what it is about, the package its message names, and the
\* peer violations its message lists
Error(kind, name) == [kind |-> kind, name |-> name, violations |-> {}]

RequestMaps ==
    UNION {[S -> Tokens] : S \in {T \in SUBSET Names : Cardinality(T) <= MaxRequested}}

WorkspaceMaps ==
    {[n \in S |-> WorkspaceRange(n)] :
        S \in {T \in SUBSET Names : Cardinality(Names \ T) <= MaxUndeclared}}

\* a call: the request map, the workspace map and the state of the registry
Call(pkgs, deps, published) == [packages |-> pkgs, deps |-> deps, registry |-> published]

\* core is requested at 17.0.0 in a workspace of core and common
CoreUpdateCalls ==
    {Call([n \in {"core"} |-> "17.0.0"], [n \in {"core", "common"} |-> WorkspaceRange(n)], r) :
        r \in {"full", "partial"}}

\* the library and the plugin that depends on it are requested at latest, in
\* a workspace of the two and in one that declares common as well
PluginUpdateCalls ==
    {Call([n \in {"lib", "plugin"} |-> "latest"], [n \in w[1] |-> WorkspaceRange(n)], w[2]) :
        w \in {<<{"lib", "plugin"}, "full">>, <<{"lib", "plugin", "common"}, "full">>,
               <<{"lib", "plugin", "common"}, "partial">>}}

\* the library, core or both are requested in a workspace that also declares
\* codelyzer, whose installed release 2.0.0 declares ranges on both; or
\* codelyzer itself is requested, at its older release line or at a tag
DeprecatedDependentCalls ==
    {Call(pkgs, [n \in {"core", "lib", "codelyzer"} |-> WorkspaceRange(n)], "full") :
        pkgs \in {[n \in {"lib"} |-> "latest"], [n \in {"core"} |-> "next"],
                  [n \in {"core", "lib"} |-> "latest"]}
                    \cup {[n \in {"codelyzer"} |-> token] :
                             token \in {"^1.0.0", "latest", "next"}}}

Calls ==
    {Call(pkgs, deps, "full") : pkgs \in RequestMaps, deps \in WorkspaceMaps}
       \cup CoreUpdateCalls \cup PluginUpdateCalls \cup DeprecatedDependentCalls

\* lines 339-341: a _buildPackageInfo call of the package gets as far as
\* getRegistryManifest(name, targetVersion)
TargetFetched(pkgs, deps, name) ==
    \E info \in {BuildPackageInfo(pkgs, deps, name)},
       requested \in {RequestedTarget(pkgs, name)} :
          /\ info.err = ""
          /\ requested # NoVersion
          /\ ~VLte(requested, info.installed)

\* a variant of lines 339-341 with a cache by package name: only the first
\* _buildPackageInfo call of a package asks the provider
CountFetch_Cached(counts, name, asked) ==
    IF asked /\ counts[name] = 0 THEN [counts EXCEPT ![name] = 1] ELSE counts

\* the calls counted so far, and one more for the package when asked
CountFetch(counts, name, asked) ==
    IF asked THEN [counts EXCEPT ![name] = @ + 1] ELSE counts

Init ==
    /\ pc = "start"
    /\ \E call \in Calls :
          /\ packages0 = call.packages
          /\ allDependencies = call.deps
          /\ registry = call.registry
    /\ packages = packages0
    /\ installedMode \in {"local", "unreadable", "missing"}
    /\ providerResolves \in BOOLEAN
    /\ force = <<>>
    /\ next = <<>>
    /\ pending = {}
    /\ fetched = EmptyMap
    /\ settled = <<>>
    /\ universe = <<>>
    /\ idx = 0
    /\ lastPackagesSize = 0
    /\ packageInfoMap = EmptyMap
    /\ peersErrors = FALSE
    /\ logged = {}
    /\ thrown = NoError
    /\ manifestFetches = [n \in AllNames |-> 0]
    /\ crange = InvalidRange
    /\ cresult = InvalidRange

\* a variant of line 489 that leaves out the workspace packages
InitialDepsToFetch_RequestedOnly(pkgs, deps) == KeysInOrder(DOMAIN pkgs)

\* line 489: initialDepsToFetch, in the insertion order of the Set
InitialDepsToFetch(pkgs, deps) ==
    KeysInOrder(DOMAIN pkgs) \o KeysInOrder(DOMAIN deps \ DOMAIN pkgs)

\* lines 490-493: the map callback runs for every name up to its first await, so
\* every getRegistryMetadata call is made before Promise.all is awaited
IssueFetches ==
    /\ pc = "start"
    /\ pending' = {InitialDepsToFetch(packages, allDependencies)[i] :
                       i \in 1..Len(InitialDepsToFetch(packages, allDependencies))}
    /\ pc' = "fetching"
    /\ UNCHANGED <<packages, packages0, allDependencies, installedMode, registry,
                   providerResolves, force, next, fetched, settled, universe, idx,
                   lastPackagesSize, packageInfoMap, peersErrors, logged, thrown,
                   manifestFetches, crange, cresult>>

\* lines 492-496: one call settles, with the metadata or (catch) with null
SettleFetch(name, ok) ==
    /\ pc = "fetching"
    /\ name \in pending
    /\ ok \/ Cardinality({n \in DOMAIN fetched : ~fetched[n]}) < MaxFailed
    /\ pending' = pending \ {name}
    /\ fetched' = fetched @@ (name :> ok)
    /\ settled' = Append(settled, name)
    /\ UNCHANGED <<pc, packages, packages0, allDependencies, installedMode, registry,
                   providerResolves, force, next, universe, idx, lastPackagesSize,
                   packageInfoMap, peersErrors, logged, thrown, manifestFetches, crange,
                   cresult>>

\* a variant of the reduce of lines 500-506 that keeps the null results
MetadataKeys_KeepNull(deps, results) == deps

\* a variant of the reduce of lines 500-506 that takes its first element as
\* the initial value
MetadataKeys_SkipFirst(deps, results) ==
    IF deps = <<>> THEN <<>> ELSE SelectSeq(Tail(deps), LAMBDA n : results[n])

\* a variant of lines 498-506 that takes the results in the order in which the
\* calls settled
MetadataKeys_CompletionOrder(deps, results) == SelectSeq(settled, LAMBDA n : results[n])

\* lines 500-506: the keys of npmPackageJsonMap, the non-null results in the
\* order of the requests
MetadataKeys(deps, results) == SelectSeq(deps, LAMBDA n : results[n])

\* variants of the test of line 521
LoopAgain_Never(size, last) == size < last

LoopAgain_Always(size, last) == size >= last

\* line 521: the test of the do...while loop
LoopAgain(size, last) == size > last

\* lines 498-511: Promise.all resolves once every call has settled, with the
\* results in the order of the requests (the order of settling is lost); the
\* map is reduced and the first pass of the loop begins
BuildUniverse ==
    /\ pc = "fetching"
    /\ pending = {}
    /\ universe' = MetadataKeys(InitialDepsToFetch(packages, allDependencies), fetched)
    /\ settled' = <<>>
    /\ lastPackagesSize' = Size(packages)
    /\ idx' = 1
    /\ pc' = IF universe' = <<>> THEN "loopcheck" ELSE "group"
    /\ UNCHANGED <<packages, packages0, allDependencies, installedMode, registry,
                   providerResolves, force, next, pending, fetched, packageInfoMap,
                   peersErrors, logged, thrown, manifestFetches, crange, cresult>>

UniverseSet == {universe[i] : i \in 1..Len(universe)}

\* line 513
GroupStep ==
    /\ pc = "group"
    /\ \E r \in {AddPackageGroup(packages, allDependencies, universe[idx])} :
          /\ packages' = r.packages
          /\ IF r.err # ""
             THEN pc' = "failed" /\ thrown' = Error(r.err, r.name)
             ELSE pc' = "peers" /\ thrown' = thrown
    /\ logged' = logged \cup GroupWarnings(packages, allDependencies, universe[idx])
    /\ manifestFetches' =
          CountFetch(manifestFetches, universe[idx],
                     /\ TokenOf(packages, universe[idx]) # ""
                     /\ TargetFetched(packages, allDependencies, universe[idx]))
    /\ UNCHANGED <<packages0, allDependencies, installedMode, registry,
                   providerResolves, force, next, pending, fetched, settled, universe,
                   idx, lastPackagesSize, packageInfoMap, peersErrors, crange, cresult>>

\* lines 514-519
PeerStep ==
    /\ pc = "peers"
    /\ \E r \in {AddPeerDependencies(packages, allDependencies, universe[idx], UniverseSet)} :
          /\ packages' = r.packages
          /\ IF r.err # ""
             THEN pc' = "failed" /\ thrown' = Error(r.err, r.name) /\ idx' = idx
             ELSE /\ thrown' = thrown
                  /\ idx' = idx + 1
                  /\ pc' = IF idx = Len(universe) THEN "loopcheck" ELSE "group"
    /\ logged' = logged \cup PeerWarnings(packages, allDependencies, universe[idx],
                                          UniverseSet)
    /\ manifestFetches' =
          CountFetch(manifestFetches, universe[idx],
                     /\ TokenOf(packages, universe[idx]) # ""
                     /\ TargetFetched(packages, allDependencies, universe[idx]))
    /\ UNCHANGED <<packages0, allDependencies, installedMode, registry,
                   providerResolves, force, next, pending, fetched, settled, universe,
                   lastPackagesSize, packageInfoMap, peersErrors, crange, cresult>>

\* lines 510-511 and 521: another pass
NextPass ==
    /\ pc = "loopcheck"
    /\ LoopAgain(Size(packages), lastPackagesSize)
    /\ lastPackagesSize' = Size(packages)
    /\ idx' = 1
    /\ pc' = IF universe = <<>> THEN "loopcheck" ELSE "group"
    /\ UNCHANGED <<packages, packages0, allDependencies, installedMode, registry,
                   providerResolves, force, next, pending, fetched, settled, universe,
                   packageInfoMap, peersErrors, logged, thrown, manifestFetches, crange,
                   cresult>>

\* lines 521-525: the loop exits
ExitLoop ==
    /\ pc = "loopcheck"
    /\ ~LoopAgain(Size(packages), lastPackagesSize)
    /\ idx' = 1
    /\ pc' = IF universe = <<>> THEN "validate" ELSE "build"
    /\ UNCHANGED <<packages, packages0, allDependencies, installedMode, registry,
                   providerResolves, force, next, pending, fetched, settled, universe,
                   lastPackagesSize, packageInfoMap, peersErrors, logged, thrown,
                   manifestFetches, crange, cresult>>

\* lines 525-530: one entry of the final info map
BuildInfoStep ==
    /\ pc = "build"
    /\ \E name \in {universe[idx]} :
       \E info \in {BuildPackageInfo(packages, allDependencies, name)} :
          IF info.err # ""
          THEN /\ pc' = "failed"
               /\ thrown' = Error(info.err, name)
               /\ UNCHANGED <<idx, packageInfoMap, logged, manifestFetches>>
          ELSE /\ packageInfoMap' = packageInfoMap @@ (name :> info)
               /\ logged' = logged \cup InfoWarnings(name, info)
               /\ manifestFetches' =
                     CountFetch(manifestFetches, name,
                                TargetFetched(packages, allDependencies, name))
               /\ idx' = idx + 1
               /\ pc' = IF idx = Len(universe) THEN "validate" ELSE "build"
               /\ thrown' = thrown
    /\ UNCHANGED <<packages, packages0, allDependencies, installedMode, registry,
                   providerResolves, force, next, pending, fetched, settled, universe,
                   lastPackagesSize, peersErrors, crange, cresult>>

\* lines 533-535: the validator runs; force and next are read here for the
\* first time
Validate(forceArg, nextArg) ==
    /\ pc = "validate"
    /\ Size(packages) > 0
    /\ force' = <<forceArg>>
    /\ next' = <<nextArg>>
    /\ \E verdict \in {ValidateUpdatePackages(packageInfoMap, universe, nextArg, 1,
                                                Verdict(FALSE, {}))} :
          /\ peersErrors' = verdict.failed
          /\ logged' = logged \cup verdict.logs
    /\ pc' = "validated"
    /\ UNCHANGED <<packages, packages0, allDependencies, installedMode, registry,
                   providerResolves, pending, fetched, settled, universe, idx,
                   lastPackagesSize, packageInfoMap, thrown, manifestFetches, crange,
                   cresult>>

\* line 533: an empty request map is not validated
SkipValidation(forceArg, nextArg) ==
    /\ pc = "validate"
    /\ Size(packages) = 0
    /\ force' = <<forceArg>>
    /\ next' = <<nextArg>>
    /\ pc' = "returned"
    /\ UNCHANGED <<packages, packages0, allDependencies, installedMode, registry,
                   providerResolves, pending, fetched, settled, universe, idx,
                   lastPackagesSize, packageInfoMap, peersErrors, logged, thrown,
                   manifestFetches, crange, cresult>>

\* variants of the test of line 536
MustThrow_IgnoreForce(errors, forceArg) == errors

MustThrow_WhenForced(errors, forceArg) == errors /\ forceArg

MustThrow_IgnoreErrors(errors, forceArg) == ~forceArg

\* line 536
MustThrow(errors, forceArg) == errors /\ ~forceArg

\* lines 536-538
Throw ==
    /\ pc = "validated"
    /\ MustThrow(peersErrors, force[1])
    /\ thrown' = Error("incompatible_peers", "")
    /\ pc' = "failed"
    /\ UNCHANGED <<packages, packages0, allDependencies, installedMode, registry,
                   providerResolves, force, next, pending, fetched, settled, universe,
                   idx, lastPackagesSize, packageInfoMap, peersErrors, logged,
                   manifestFetches, crange, cresult>>

\* line 541
Return ==
    /\ pc = "validated"
    /\ ~MustThrow(peersErrors, force[1])
    /\ pc' = "returned"
    /\ UNCHANGED <<packages, packages0, allDependencies, installedMode, registry,
                   providerResolves, force, next, pending, fetched, settled, universe,
                   idx, lastPackagesSize, packageInfoMap, peersErrors, logged, thrown,
                   manifestFetches, crange, cresult>>

Next ==
    \/ IssueFetches
    \/ \E name \in AllNames, ok \in BOOLEAN : SettleFetch(name, ok)
    \/ BuildUniverse
    \/ GroupStep
    \/ PeerStep
    \/ NextPass
    \/ ExitLoop
    \/ BuildInfoStep
    \/ \E forceArg \in BOOLEAN, nextArg \in BOOLEAN : Validate(forceArg, nextArg)
    \/ \E forceArg \in BOOLEAN, nextArg \in BOOLEAN : SkipValidation(forceArg, nextArg)
    \/ Throw
    \/ Return

Spec == Init /\ [][Next]_vars

\* the scheduler runs every continuation of analyze that is ready
FairSpec == Spec /\ WF_vars(Next)

(***************************************************************************)
(* angularMajorCompatGuarantee on its own: a range is drawn and extended    *)
(***************************************************************************)
MaxBoundMajor == 3

\* the versions the comparators of the drawn ranges are written with
BoundVersions ==
    {V(k, 0, 0) : k \in 1..MaxBoundMajor} \cup {<<2, 0, 0, PreAlpha0>>, V(MajorCap - 1, 0, 0)}

Comparators == {Cmp(op, v) : op \in {"<", "<=", ">", ">=", "="}, v \in BoundVersions}

\* a string that is no range, one comparator, two comparators in either order,
\* or two caret ranges
CompatRanges ==
    {InvalidRange}
       \cup {Range(<<<<c>>>>) : c \in Comparators}
       \cup {Range(<<<<c, d>>>>) : c \in Comparators, d \in Comparators}
       \cup {Range(<<Caret(a, 0, 0, Release), Caret(b, 0, 0, Release)>>) :
                a \in 1..MaxBoundMajor, b \in 1..MaxBoundMajor}

\* the versions the ranges are compared on
VersionUniverse ==
    ((0..(MaxBoundMajor + 1)) \cup {MajorCap - 2, MajorCap - 1, MajorCap})
       \X {0, 1} \X {0, 1} \X {PreZero, PreAlpha0, PreAlpha1, Release}

InitCompat ==
    /\ pc = "range"
    /\ crange \in CompatRanges
    /\ cresult = InvalidRange
    /\ packages0 = EmptyMap
    /\ packages = EmptyMap
    /\ allDependencies = EmptyMap
    /\ installedMode = "local"
    /\ registry = "full"
    /\ providerResolves = TRUE
    /\ force = <<>>
    /\ next = <<>>
    /\ pending = {}
    /\ fetched = EmptyMap
    /\ settled = <<>>
    /\ universe = <<>>
    /\ idx = 0
    /\ lastPackagesSize = 0
    /\ packageInfoMap = EmptyMap
    /\ peersErrors = FALSE
    /\ logged = {}
    /\ thrown = NoError
    /\ manifestFetches = [n \in AllNames |-> 0]

\* the call angularMajorCompatGuarantee(range)
Guarantee ==
    /\ pc = "range"
    /\ cresult' = AngularMajorCompatGuarantee(crange)
    /\ pc' = "extended"
    /\ UNCHANGED <<packages, packages0, allDependencies, installedMode, registry,
                   providerResolves, force, next, pending, fetched, settled, universe,
                   idx, lastPackagesSize, packageInfoMap, peersErrors, logged, thrown,
                   manifestFetches, crange>>

NextCompat == Guarantee

SpecCompat == InitCompat /\ [][NextCompat]_vars

(***************************************************************************)
(* Properties of analyze                                                   *)
(***************************************************************************)
\* the loop has exited and analyze has not failed
AfterLoop == pc \in {"build", "validate", "validated", "returned"}

Done == pc \in {"returned", "failed"}

\* the request-set packages _addPackageGroup and _addPeerDependencies go
\* through: in the universe, with a token that is not falsy (lines 369-372)
ExpandedNames(pkgs) == {n \in UniverseSet \cap DOMAIN pkgs : pkgs[n] # ""}

\* the members of the package group the expansion manifest of a package declares
GroupMembers(pkgs, name) ==
    LET info  == BuildPackageInfo(pkgs, allDependencies, name)
        group == PackageGroupNormalized(ExpansionManifest(pkgs, name, info), pkgs[name])
    IN {group[i][1] : i \in 1..Len(group)}

\* the peer dependencies of the expansion manifest of a package
PeersOf(pkgs, name) ==
    LET info  == BuildPackageInfo(pkgs, allDependencies, name)
        peers == ExpansionManifest(pkgs, name, info).peers
    IN {peers[i] : i \in 1..Len(peers)}

\* the two expansion rules have nothing to add for a package
Closed(pkgs, name) ==
    /\ \A member \in GroupMembers(pkgs, name) :
          member \in DOMAIN allDependencies => member \in DOMAIN pkgs
    /\ \A peer \in PeersOf(pkgs, name) :
          \/ peer[1] \in DOMAIN pkgs
          \/ /\ peer[1] \in UniverseSet
             /\ Satisfies(BuildPackageInfo(pkgs, allDependencies, peer[1]).installed,
                          ParseRange(peer[2]), FALSE)

\* the logger.error calls of the validator
ErrorLogs == {l \in logged : l.level = "error"}

\* C1: at loop exit every package of the request set that is in the universe
\* and has a manifest to expand (lines 369-384: a version token that is not
\* falsy) is closed under the group rule and the peer rule, and re-running
\* either expansion step on any package of the universe leaves the request map
\* as it is.
C1_FixedPoint ==
    AfterLoop =>
       /\ \A name \in ExpandedNames(packages) : Closed(packages, name)
       /\ \A name \in UniverseSet :
             /\ AddPackageGroup(packages, allDependencies, name).packages = packages
             /\ AddPeerDependencies(packages, allDependencies, name, UniverseSet).packages
                   = packages

\* C1 witness: the loop has exited after the expansion added at least two
\* packages, one of them through a package that was itself added.
C1_Witness ==
    /\ pc = "build"
    /\ Size(packages) >= Size(packages0) + 2
    /\ \E name \in ExpandedNames(packages) \ DOMAIN packages0 :
          GroupMembers(packages, name) # {}

\* C2 (as stated): when analyze returns, the info map has a key for every
\* package of the initial request set.
C2_Original == pc = "returned" => DOMAIN packages0 \subseteq DOMAIN packageInfoMap

\* C2 (amended): when analyze returns, the info map has a key for every package
\* of the initial request set whose registry metadata fetch succeeded, and for
\* no requested package whose fetch failed.
C2_RequestedAndFetched ==
    pc = "returned" =>
       \A name \in DOMAIN packages0 : name \in DOMAIN packageInfoMap <=> fetched[name]

\* C2 witness: analyze returned a non-empty map for a request of two packages,
\* one of which could not be fetched.
C2_Witness ==
    /\ pc = "returned"
    /\ Size(packages0) = 2
    /\ \E name \in DOMAIN packages0 : ~fetched[name]
    /\ \E name \in DOMAIN packages0 : name \in DOMAIN packageInfoMap

\* C3 (as stated): when analyze returns, for every package group declared by the
\* manifest a request-set package is expanded through, if a member of the group
\* is in the result then every member declared in the workspace is in the
\* result and in the request set.
C3_Original ==
    pc = "returned" =>
       \A name \in ExpandedNames(packages) :
          LET G == GroupMembers(packages, name)
          IN (G \cap DOMAIN packageInfoMap # {}) =>
                \A member \in G \cap DOMAIN allDependencies :
                   member \in DOMAIN packageInfoMap /\ member \in DOMAIN packages

\* C3 (amended): ... then every member declared in the workspace is in the
\* request set, and is in the result exactly when its metadata fetch succeeded.
C3_GroupTogether ==
    pc = "returned" =>
       \A name \in ExpandedNames(packages) :
          LET G == GroupMembers(packages, name)
          IN (G \cap DOMAIN packageInfoMap # {}) =>
                \A member \in G \cap DOMAIN allDependencies :
                   /\ member \in DOMAIN packages
                   /\ member \in DOMAIN packageInfoMap <=> fetched[member]

\* C3 witness: analyze returned after the group of a requested package brought
\* in a declared member that was not requested.
C3_Witness ==
    /\ pc = "returned"
    /\ \E name \in ExpandedNames(packages) \cap DOMAIN packages0 :
          \E member \in GroupMembers(packages, name) :
             member \in DOMAIN packages \ DOMAIN packages0

\* C4: a pass is followed by another pass only when it made the request set
\* larger, and analyze ends: it returns a map or fails.
C4_Terminates ==
    /\ [][(pc = "loopcheck" /\ pc' \in {"group", "loopcheck"})
             => Size(packages) > lastPackagesSize]_vars
    /\ <>Done

\* C4 witness: a pass that was not the first one has ended and it made the
\* request set larger again, so one more pass follows.
C4_Witness ==
    /\ pc = "loopcheck"
    /\ lastPackagesSize > Size(packages0)
    /\ Size(packages) > lastPackagesSize

\* the validator has run (line 533)
ValidatorRan == force # <<>> /\ Size(packages) > 0

\* the forward violations of an info map: <<package, peer>> where the package
\* has a target whose manifest declares a peer range that the version the
\* peer resolves to does not satisfy
ForwardViolations(infoMap, nextFlag) ==
    {<<name, peer[1]>> : <<name, peer>> \in
        {<<n, q>> \in UNION {{<<n, TargetManifest(n, infoMap[n]).peers[i]>> :
                                 i \in 1..Len(TargetManifest(n, infoMap[n]).peers)} :
                              n \in {m \in DOMAIN infoMap : infoMap[m].target # NoVersion}} :
            /\ q[1] \in DOMAIN infoMap
            /\ ~Satisfies(PeerVersion(infoMap[q[1]]), ParseRange(q[2]), nextFlag)}}

\* the reverse violations of an info map: <<dependent, package>> where the
\* package has a target that the (extended) range the dependent declares on it
\* does not admit
ReverseViolations(infoMap, nextFlag) ==
    {<<d, n>> \in (DOMAIN infoMap \ IgnoredPackages) \X
                  {m \in DOMAIN infoMap : infoMap[m].target # NoVersion} :
        \E i \in 1..Len(CurrentManifest(d, infoMap[d]).peers) :
           LET peer == CurrentManifest(d, infoMap[d]).peers[i]
           IN /\ peer[1] = n
              /\ ~Satisfies(infoMap[n].target, UpdatePeerVersion(infoMap, n, peer[2]),
                            nextFlag)}

\* the violations the logger.error calls of the validator name
LoggedViolations == {<<l.pkg, l.peer>> : l \in ErrorLogs}

\* C5: analyze fails with the aggregate error exactly when the validator
\* reported a violation and force is false; when force is true or nothing was
\* reported it returns the info map, one PackageInfo per universe package.
C5_AggregateFailure ==
    /\ thrown.kind = "incompatible_peers" =>
          pc = "failed" /\ ValidatorRan /\ ErrorLogs # {} /\ force = <<FALSE>>
    /\ (Done /\ ValidatorRan) =>
          IF ErrorLogs # {} /\ force = <<FALSE>>
          THEN pc = "failed" /\ thrown.kind = "incompatible_peers"
          ELSE /\ pc = "returned"
               /\ thrown = NoError
               /\ DOMAIN packageInfoMap = UniverseSet
               /\ \A name \in UniverseSet :
                     /\ packageInfoMap[name] = BuildPackageInfo(packages, allDependencies, name)
                     /\ packageInfoMap[name].err = ""

\* C5 witness: analyze returned the map although the validator reported a
\* violation, because force was true.
C5_Witness == pc = "returned" /\ ErrorLogs # {} /\ force = <<TRUE>>

\* C6 (as stated): the error thrown when unforced validation fails enumerates
\* every forward and reverse violation of the info map.
C6_Original ==
    thrown.kind = "incompatible_peers" =>
       thrown.violations = ForwardViolations(packageInfoMap, next[1])
                              \cup ReverseViolations(packageInfoMap, next[1])

\* C6 (amended): the error thrown when unforced validation fails has a fixed
\* message that names no violation; the violations were reported by
\* logger.error calls before it is thrown: at least one, and among them every
\* forward violation.
C6_FixedMessage ==
    thrown.kind = "incompatible_peers" =>
       /\ thrown.violations = {}
       /\ thrown.name = ""
       /\ ErrorLogs # {}
       /\ ForwardViolations(packageInfoMap, next[1]) \subseteq LoggedViolations

\* C6 witness: analyze threw the aggregate error after the validator had
\* logged two violations or more.
C6_Witness == thrown.kind = "incompatible_peers" /\ Cardinality(ErrorLogs) >= 2

\* C7: the validator does not raise, and the boolean it returns is true exactly
\* when the info map has a forward or a reverse violation; a failure comes
\* only from the caller's test of that boolean.
C7_ValidatorBoolean ==
    /\ ValidatorRan =>
          /\ peersErrors <=> (ForwardViolations(packageInfoMap, next[1])
                                 \cup ReverseViolations(packageInfoMap, next[1]) # {})
          /\ peersErrors <=> ErrorLogs # {}
    /\ pc = "validated" => thrown = NoError
    /\ (pc = "failed" /\ ValidatorRan) => thrown.kind = "incompatible_peers"

\* C7 witness: the validator has returned true for an info map in which two
\* packages have a target and only one of them has a violation.
C7_Witness ==
    /\ pc = "validated"
    /\ peersErrors
    /\ \E a, b \in {m \in DOMAIN packageInfoMap : packageInfoMap[m].target # NoVersion} :
          /\ a # b
          /\ \E l \in ErrorLogs : l.pkg = a \/ l.peer = a
          /\ \A l \in ErrorLogs : l.pkg # b /\ l.peer # b

\* the names whose getRegistryMetadata call threw
FailedFetches == {n \in DOMAIN fetched : ~fetched[n]}

\* C8: a name whose metadata fetch threw is not in the universe, is not
\* expanded through and gets no PackageInfo; a failure of analyze names a
\* package whose fetch succeeded; and when analyze returns, every package whose
\* fetch succeeded has its PackageInfo.
C8_FetchFailureTolerated ==
    /\ pc \notin {"start", "fetching"} => UniverseSet \cap FailedFetches = {}
    /\ pc \in {"group", "peers", "build"} => universe[idx] \notin FailedFetches
    /\ DOMAIN packageInfoMap \cap FailedFetches = {}
    /\ (pc = "failed" /\ thrown.kind # "incompatible_peers") =>
          thrown.name \in DOMAIN fetched /\ fetched[thrown.name]
    /\ pc = "returned" => DOMAIN packageInfoMap = DOMAIN fetched \ FailedFetches

\* C8 witness: analyze returned a non-empty map although a fetch of the initial
\* batch threw.
C8_Witness == pc = "returned" /\ FailedFetches # {} /\ packageInfoMap # EmptyMap

\* C9: analyze returns only when every package of the universe is declared in
\* the workspace and has an installed version; resolving an undeclared package
\* gives the not-declared error, and analyze fails with the error of the
\* package it names: not declared, or no installed version.
C9_UndeclaredAborts ==
    /\ pc = "returned" =>
          \A name \in UniverseSet :
             /\ name \in DOMAIN allDependencies
             /\ ResolveInstalled(allDependencies, name) # NoVersion
    /\ \A name \in Names \ DOMAIN allDependencies :
          BuildPackageInfo(packages, allDependencies, name).err = "not_declared"
    /\ thrown.kind = "not_declared" =>
          pc = "failed" /\ thrown.name \in UniverseSet \ DOMAIN allDependencies
    /\ thrown.kind = "no_version" =>
          /\ pc = "failed"
          /\ thrown.name \in UniverseSet \cap DOMAIN allDependencies
          /\ ResolveInstalled(allDependencies, thrown.name) = NoVersion
    /\ (Done /\ \E name \in UniverseSet :
                   \/ name \notin DOMAIN allDependencies
                   \/ ResolveInstalled(allDependencies, name) = NoVersion) =>
          pc = "failed" /\ thrown.kind \in {"not_declared", "no_version", "no_manifest"}

\* C9 witness: analyze failed with the not-declared error for a requested
\* package after it had expanded through another package.
C9_Witness ==
    /\ pc = "failed"
    /\ thrown.kind = "not_declared"
    /\ thrown.name \in DOMAIN packages0
    /\ universe[1] # thrown.name

(***************************************************************************)
(* Properties of angularMajorCompatGuarantee                               *)
(***************************************************************************)
\* the first major M, counting up from 1, such that M.0.0 is greater than every
\* version the range admits; any major when the range admits no version
ClaimedMajors(range, includePrerelease) ==
    LET admitted == {v \in VersionUniverse : Satisfies(v, range, includePrerelease)}
        top      == MaxVersion(admitted)
    IN IF admitted = {} THEN 1..MajorCap
       ELSE IF top[1] = 0 THEN {1}
       ELSE IF VLt(top, V(top[1], 0, 0)) THEN {top[1]}
       ELSE {top[1] + 1}

\* the versions the result admits and the range does not
Added(includePrerelease) ==
    {v \in VersionUniverse : /\ Satisfies(v, cresult, includePrerelease)
                             /\ ~Satisfies(v, crange, includePrerelease)}

\* C10 (as stated): the result admits every version the range admits, and every
\* version it adds is of the first major M such that M.0.0 is greater than
\* every version the range admits.
C10_Original ==
    pc = "extended" =>
       \A includePrerelease \in BOOLEAN :
          /\ \A v \in VersionUniverse :
                Satisfies(v, crange, includePrerelease) =>
                   Satisfies(v, cresult, includePrerelease)
          /\ \E major \in ClaimedMajors(crange, includePrerelease) :
                \A v \in Added(includePrerelease) : v[1] = major

\* every major below the cap, as major.0.0, is admitted by the range
AdmitsEveryMajor(range) ==
    \A major \in 1..(MajorCap - 1) : Satisfies(V(major, 0, 0), range, FALSE)

\* C11: angularMajorCompatGuarantee returns a value for every input; an input
\* that is not a valid range is returned unchanged, and a valid range that
\* admits every major below the cap is returned as validated, with no
\* alternative added.
C11_NeverThrows ==
    pc = "extended" =>
       /\ ~ValidRange(crange) => cresult = crange
       /\ (ValidRange(crange) /\ AdmitsEveryMajor(crange)) =>
             /\ cresult = crange
             /\ Added(TRUE) = {}
       /\ ValidRange(crange) => ValidRange(cresult)

\* C11 witness: a valid range with an upper bound that admits every major below
\* the cap has been returned.
C11_Witness ==
    /\ pc = "extended"
    /\ ValidRange(crange)
    /\ AdmitsEveryMajor(crange)
    /\ \E i \in 1..Len(crange.sets[1]) : crange.sets[1][i].op = "<="

(***************************************************************************)
(* analyze as a function of its arguments, of the registry answers and of  *)
(* the installed state                                                     *)
(***************************************************************************)
\* lines 512-520: one pass over npmPackageJsonMap, from entry i on; it stops at
\* the first error
RECURSIVE ExpandPass(_, _, _, _)
ExpandPass(pkgs, deps, keys, i) ==
    IF i > Len(keys) THEN Outcome("", "", pkgs)
    ELSE With(LAMBDA g :
                 IF g.err # "" THEN g
                 ELSE With(LAMBDA q : IF q.err # "" THEN q
                                      ELSE ExpandPass(q.packages, deps, keys, i + 1),
                           AddPeerDependencies(g.packages, deps, keys[i],
                                               {keys[k] : k \in 1..Len(keys)})),
              AddPackageGroup(pkgs, deps, keys[i]))

\* lines 510-521: passes until one adds nothing
RECURSIVE ExpandLoop(_, _, _)
ExpandLoop(pkgs, deps, keys) ==
    With(LAMBDA r : IF r.err = "" /\ Size(r.packages) > Size(pkgs)
                    THEN ExpandLoop(r.packages, deps, keys)
                    ELSE r,
         ExpandPass(pkgs, deps, keys, 1))

\* lines 524-530: the info map, from entry i of npmPackageJsonMap on
RECURSIVE BuildInfoMap(_, _, _, _, _)
BuildInfoMap(pkgs, deps, keys, i, acc) ==
    IF i > Len(keys) THEN [err |-> "", name |-> "", packages |-> pkgs, infoMap |-> acc]
    ELSE With(LAMBDA info :
                 IF info.err # ""
                 THEN [err |-> info.err, name |-> keys[i], packages |-> pkgs, infoMap |-> acc]
                 ELSE BuildInfoMap(pkgs, deps, keys, i + 1, acc @@ (keys[i] :> info)),
              BuildPackageInfo(pkgs, deps, keys[i]))

\* lines 488-530: the error raised, or the request map and the info map built,
\* from the arguments and the answers of getRegistryMetadata
Resolution(pkgs, deps, results) ==
    With(LAMBDA keys :
            With(LAMBDA r : IF r.err # ""
                            THEN [err |-> r.err, name |-> r.name, packages |-> r.packages,
                                  infoMap |-> EmptyMap]
                            ELSE BuildInfoMap(r.packages, deps, keys, 1, EmptyMap),
                 ExpandLoop(pkgs, deps, keys)),
         SelectSeq(InitialDepsToFetch(pkgs, deps), LAMBDA n : results[n]))

\* lines 533-538: analyze raises the aggregate error
ValidationThrows(resolution, keys, forceArg, nextArg) ==
    /\ Size(resolution.packages) > 0
    /\ ValidateUpdatePackages(resolution.infoMap, keys, nextArg, 1, Verdict(FALSE, {})).failed
    /\ ~forceArg

Batch == DOMAIN packages0 \cup DOMAIN allDependencies

\* analyze has not yet passed the await of Promise.all
BeforeLoop == pc \in {"start", "fetching"}

\* C13: once a request of the initial batch is awaited every request of the
\* batch (one per requested or workspace-declared name) has been issued; while
\* a request is unsettled the request map, the universe and the info map are
\* untouched; once the loop has started every request has settled, with
\* metadata or with a failure, and the universe and the answers never change
\* again.
C13_BatchBeforeLoop ==
    /\ [](pc = "start" => pending = {} /\ fetched = EmptyMap)
    /\ [](pc = "fetching" =>
             /\ pending \cup DOMAIN fetched = Batch
             /\ pending \cap DOMAIN fetched = {})
    /\ [](BeforeLoop =>
             packages = packages0 /\ universe = <<>> /\ packageInfoMap = EmptyMap)
    /\ [](~BeforeLoop => pending = {} /\ DOMAIN fetched = Batch)
    /\ [][~BeforeLoop => universe' = universe /\ fetched' = fetched]_vars
    /\ [][(packages' # packages \/ packageInfoMap' # packageInfoMap)
             => (pending = {} /\ ~BeforeLoop)]_vars

\* C13 witness: the loop is running and has grown the request map, after a
\* batch of three requests of which one failed.
C13_Witness ==
    /\ pc = "peers"
    /\ Cardinality(Batch) = 3
    /\ FailedFetches # {}
    /\ packages # packages0

(***************************************************************************)
(* Scenarios                                                               *)
(***************************************************************************)
\* core is requested at 17.0.0, the workspace declares core and common, and
\* every metadata request has been answered so far
CoreUpdate ==
    /\ \E call \in CoreUpdateCalls :
          packages0 = call.packages /\ allDependencies = call.deps /\ registry = call.registry
    /\ FailedFetches = {}

\* the ranges the current manifest of common declares on core
CommonRangesOnCore ==
    LET peers == CurrentManifest("common", packageInfoMap["common"]).peers
    IN {peers[i][2] : i \in {k \in 1..Len(peers) : peers[k][1] = "core"}}

\* C14: in the core update scenario the expansion adds common to the request
\* map (with the token of core); core gets the target 17.0.0; the range common
\* declares on core, extended through the table, admits 17.0.0; the validator
\* logs no violation and returns false; analyze returns and does not throw.
C14_CoreUpdateScenario ==
    CoreUpdate =>
       /\ pc # "failed" /\ thrown = NoError
       /\ AfterLoop => "common" \in DOMAIN packages /\ packages["common"] = "17.0.0"
       /\ pc \in {"validate", "validated", "returned"} =>
             /\ DOMAIN packageInfoMap = {"core", "common"}
             /\ packageInfoMap["core"].target = V(17, 0, 0)
             /\ CommonRangesOnCore # {}
             /\ \A range \in CommonRangesOnCore, nextFlag \in BOOLEAN :
                   Satisfies(V(17, 0, 0), UpdatePeerVersion(packageInfoMap, "core", range),
                             nextFlag)
       /\ ValidatorRan => ~peersErrors /\ ErrorLogs = {}
       /\ pc = "validated" => ~MustThrow(peersErrors, force[1])

\* C14 witness: analyze returned in the core update scenario with force false;
\* common stays at its installed release, whose range ^16.0.0 on core admits
\* 17.0.0 only when it is extended.
C14_Witness ==
    /\ CoreUpdate
    /\ pc = "returned"
    /\ force = <<FALSE>>
    /\ packageInfoMap["common"].target = NoVersion
    /\ CommonRangesOnCore = {"^16.0.0"}
    /\ ~Satisfies(V(17, 0, 0), ParseRange("^16.0.0"), FALSE)

\* the library and the plugin are requested at latest in a workspace of the
\* two, and every metadata request has been answered so far
PluginUpdate ==
    /\ \E call \in PluginUpdateCalls :
          packages0 = call.packages /\ allDependencies = call.deps /\ registry = call.registry
    /\ DOMAIN allDependencies = {"lib", "plugin"}
    /\ FailedFetches = {}

\* the logger.error calls of the forward check
ForwardLogs == {l \in ErrorLogs : l.kind = "forward"}

\* C15: in the plugin update scenario the plugin's target declares ^2.0.0 on
\* the library, which is in no group and not in the table and resolves to
\* 3.0.0; the validator reports exactly one forward violation, of the plugin
\* on the library, and returns true; analyze then throws the aggregate error
\* when force is false and returns the info map of both when force is true.
C15_ForwardViolationScenario ==
    /\ (PluginUpdate /\ installedMode = "local" /\ Done) => ValidatorRan
    /\ (PluginUpdate /\ ValidatorRan) =>
          /\ PeerVersion(packageInfoMap["lib"]) = V(3, 0, 0)
          /\ packageInfoMap["plugin"].target # NoVersion
          /\ TargetManifest("plugin", packageInfoMap["plugin"]).peers[1] = <<"lib", "^2.0.0">>
          /\ PackageGroupName(CurrentManifest("lib", packageInfoMap["lib"])) = ""
          /\ "lib" \notin KnownPeerCompatibleList
          /\ ForwardLogs = {LogEntry("error", "forward", "plugin", "lib")}
          /\ ForwardViolations(packageInfoMap, next[1]) = {<<"plugin", "lib">>}
          /\ peersErrors
          /\ Done =>
                IF force[1]
                THEN pc = "returned" /\ thrown = NoError
                                     /\ DOMAIN packageInfoMap = {"lib", "plugin"}
                ELSE pc = "failed" /\ thrown = Error("incompatible_peers", "")

\* C15 witness: analyze threw the aggregate error in the plugin update
\* scenario, force being false, after one forward violation was logged.
C15_Witness ==
    /\ PluginUpdate
    /\ pc = "failed"
    /\ force = <<FALSE>>
    /\ thrown.kind = "incompatible_peers"
    /\ Cardinality(ForwardLogs) = 1

\* _addPackageGroup is about to read, for a package of the request set, a
\* manifest whose packageGroup is malformed
MalformedGroupAt(pkgs, name) ==
    /\ TokenOf(pkgs, name) # ""
    /\ \E info \in {BuildPackageInfo(pkgs, allDependencies, name)} :
          /\ info.err = ""
          /\ ExpansionManifest(pkgs, name, info).group.kind = "malformed"

\* C16: the _addPackageGroup call that meets a malformed packageGroup logs the
\* warning, leaves the request map as it is, raises nothing, and analyze goes
\* on with the peers of the package; analyze never fails with an error about
\* the group, and the strings of the malformed value do not enter the request
\* map through it.
C16_MalformedGroupIgnored ==
    /\ [][(pc = "group" /\ MalformedGroupAt(packages, universe[idx])) =>
             /\ packages' = packages
             /\ pc' = "peers"
             /\ thrown' = NoError
             /\ MalformedWarning(universe[idx]) \in logged']_vars
    /\ [](pc = "failed" =>
             thrown.kind \in {"not_declared", "no_version", "no_manifest",
                              "incompatible_peers"})

\* C16 witness: analyze returned after it had met the malformed group of the
\* library, whose first entry names a workspace package that was not requested
\* and is not in the request map.
C16_Witness ==
    /\ pc = "returned"
    /\ "lib" \in DOMAIN packages0
    /\ MalformedWarning("lib") \in logged
    /\ MalformedGroupAt(packages, "lib")
    /\ "core" \in DOMAIN allDependencies \ DOMAIN packages

\* the peers the target manifests of an info map declare and that are not in
\* the universe: <<package, peer, optional>>
MissingPeers(infoMap) ==
    UNION {{<<n, TargetManifest(n, infoMap[n]).peers[i][1],
              TargetManifest(n, infoMap[n]).peers[i][1]
                 \in TargetManifest(n, infoMap[n]).optional>> :
               i \in {k \in 1..Len(TargetManifest(n, infoMap[n]).peers) :
                         TargetManifest(n, infoMap[n]).peers[k][1] \notin UniverseSet}} :
           n \in {m \in DOMAIN infoMap : infoMap[m].target # NoVersion}}

\* C17: a peer that a target manifest declares and that is not in the universe
\* has no entry in the info map; the forward check logs the missing-peer
\* warning for it exactly when it is not optional and logs no error for it;
\* every logged error, and so the validation flag, is about two packages of
\* the info map; an error analyze raises names a package of the universe; and
\* when analyze returns every package of the universe has its PackageInfo.
C17_MissingPeerTolerated ==
    /\ ValidatorRan =>
          /\ \A m \in MissingPeers(packageInfoMap) :
                /\ m[2] \notin DOMAIN packageInfoMap
                /\ LogEntry("warn", "missing", m[1], m[2]) \in logged <=> ~m[3]
                /\ \A l \in ErrorLogs : ~(l.pkg = m[1] /\ l.peer = m[2])
          /\ \A l \in ErrorLogs :
                l.pkg \in DOMAIN packageInfoMap /\ l.peer \in DOMAIN packageInfoMap
          /\ peersErrors => ErrorLogs # {}
    /\ (pc = "failed" /\ thrown.kind # "incompatible_peers") => thrown.name \in UniverseSet
    /\ pc = "returned" => DOMAIN packageInfoMap = UniverseSet

\* C17 witness: analyze returned, the validator having met a missing peer that
\* is not optional (warned about) and one that is optional (not warned about),
\* the first of them a workspace package whose metadata fetch failed.
C17_Witness ==
    /\ pc = "returned"
    /\ ValidatorRan
    /\ ~peersErrors
    /\ \E m \in MissingPeers(packageInfoMap) : ~m[3] /\ m[2] \in FailedFetches
    /\ \E m \in MissingPeers(packageInfoMap) : m[3]

\* C18: no step of analyze removes an entry of the request map or changes the
\* token of an entry that is in it; a step changes the map only by adding
\* entries, and only a group or a peer expansion step does.
C18_RequestMapGrows ==
    /\ [][\A name \in DOMAIN packages :
             name \in DOMAIN packages' /\ packages'[name] = packages[name]]_vars
    /\ [][packages' # packages => pc \in {"group", "peers"}]_vars

\* C18 witness: a pass has ended in which the request map grew although a
\* package group named, with another token, a package that was requested.
C18_Witness ==
    /\ pc = "loopcheck"
    /\ Size(packages) > Size(packages0)
    /\ \E name \in ExpandedNames(packages) :
          \E info \in {BuildPackageInfo(packages, allDependencies, name)} :
             \E group \in {PackageGroupNormalized(ExpansionManifest(packages, name, info),
                                                   packages[name])} :
                \E i \in 1..Len(group) :
                   /\ group[i][1] \in DOMAIN packages0 \cap DOMAIN allDependencies
                   /\ group[i][2] # packages0[group[i][1]]

\* the expansion loop is running
InLoop == pc \in {"group", "peers", "loopcheck"}

\* the names the manifests of the registry declare as peers
DeclaredPeerNames ==
    UNION {{ManifestOf(n, v).peers[i][1] : i \in 1..Len(ManifestOf(n, v).peers)} :
              <<n, v>> \in UNION {{<<m, w>> : w \in Versions(m)} : m \in AllNames}}

\* C19 (as stated): in the expansion loop the request map has at most as many
\* entries as the universe has packages, and every entry the expansion added is
\* a package of the universe.
C19_Original ==
    InLoop =>
       /\ Size(packages) <= Len(universe)
       /\ DOMAIN packages \ DOMAIN packages0 \subseteq UniverseSet

\* C19 (amended): the request map is bounded by the initial batch together
\* with the peers the manifests declare.  A group step adds only packages the
\* workspace declares (they are in the batch, in the universe or not); a peer
\* step adds only peers of the manifest it expands, with the declared range as
\* token: a peer of the universe when its installed version does not satisfy
\* the range, and a peer outside the universe always.
C19_BoundedByBatchAndPeers ==
    /\ [](/\ DOMAIN packages \subseteq Batch \cup DeclaredPeerNames
          /\ Size(packages) <= Cardinality(Batch \cup DeclaredPeerNames))
    /\ [][pc = "group" => DOMAIN packages' \ DOMAIN packages \subseteq DOMAIN allDependencies]_vars
    /\ [][pc = "peers" =>
             \A name \in DOMAIN packages' \ DOMAIN packages :
                /\ <<name, packages'[name]>> \in PeersOf(packages, universe[idx])
                /\ name \in UniverseSet =>
                      ~Satisfies(BuildPackageInfo(packages, allDependencies, name).installed,
                                 ParseRange(packages'[name]), FALSE)]_vars

\* C19 witness: a pass has ended with more entries in the request map than the
\* universe has packages, one of them a peer that is in neither the batch nor
\* the universe.
C19_Witness ==
    /\ pc = "loopcheck"
    /\ Size(packages) > Len(universe)
    /\ DOMAIN packages \ (Batch \cup UniverseSet) # {}
    /\ DOMAIN packages0 \subseteq UniverseSet

\* the packages a forward violation was logged for
ForwardFailed == {l.pkg : l \in ForwardLogs}

\* C20: the forward check logs every peer of a target manifest whose resolved
\* version (target, else installed) does not satisfy the declared range, for
\* every package that has a target: exactly the forward violations of the
\* info map are logged, whatever their position among the peers and the
\* packages; any of them sets the flag; and the reverse check of a package
\* with a forward violation still runs, so its reverse violation is logged.
C20_ForwardContinues ==
    ValidatorRan =>
       /\ {<<l.pkg, l.peer>> : l \in ForwardLogs} = ForwardViolations(packageInfoMap, next[1])
       /\ ForwardViolations(packageInfoMap, next[1]) # {} => peersErrors
       /\ \A name \in ForwardFailed :
             (\E v \in ReverseViolations(packageInfoMap, next[1]) : v[2] = name) =>
                \E l \in ErrorLogs : l.kind = "reverse" /\ l.peer = name

\* C20 witness: the validator has logged a forward violation for the first peer
\* of a package and then a message for a later peer of it, a reverse violation
\* of that same package, and a forward violation of a package checked after it.
C20_Witness ==
    /\ pc = "validated"
    /\ \E a, b \in ForwardFailed :
          /\ \E i, j \in 1..Len(universe) : i < j /\ universe[i] = a /\ universe[j] = b
          /\ \E l \in ErrorLogs : l.kind = "reverse" /\ l.peer = a
          /\ \E peers \in {TargetManifest(a, packageInfoMap[a]).peers} :
                /\ LogEntry("error", "forward", a, peers[1][1]) \in logged
                /\ \E k \in 2..Len(peers), l \in logged : l.pkg = a /\ l.peer = peers[k][1]

\* the (dependent, dependency) pairs the logger.error calls of the reverse
\* check name
ReverseLogs == {<<l.pkg, l.peer>> : l \in {e \in ErrorLogs : e.kind = "reverse"}}

\* the dependents of a package with a reverse violation on it
Violators(infoMap, nextFlag, name) ==
    {v[1] : v \in {w \in ReverseViolations(infoMap, nextFlag) : w[2] = name}}

\* line 159: the first of a set of packages in the order of infoMap.entries()
FirstEntry(keys, S) ==
    keys[CHOOSE i \in 1..Len(keys) :
            keys[i] \in S /\ \A k \in 1..(i - 1) : keys[k] \notin S]

\* C21 (as stated): the reverse check reports every (dependent, dependency)
\* pair of the info map whose declared range, after extension, the new version
\* of the dependency does not satisfy, and any of them sets the flag.
C21_Original ==
    ValidatorRan =>
       /\ ReverseLogs = ReverseViolations(packageInfoMap, next[1])
       /\ ReverseViolations(packageInfoMap, next[1]) # {} => peersErrors

\* C21 (what the code does): any reverse violation sets the flag, but the
\* reverse check of an updated package returns at its first violation (line
\* 197): of the dependents whose range the new version does not satisfy exactly
\* one is reported, the first in the order of the info map, and the others are
\* not.
C21_FirstDependentReported ==
    ValidatorRan =>
       /\ ReverseLogs \subseteq ReverseViolations(packageInfoMap, next[1])
       /\ ReverseViolations(packageInfoMap, next[1]) # {} => peersErrors
       /\ \A name \in DOMAIN packageInfoMap :
             \E violators \in {Violators(packageInfoMap, next[1], name)} :
                {v \in ReverseLogs : v[2] = name} =
                   IF violators = {} THEN {}
                   ELSE {<<FirstEntry(universe, violators), name>>}

\* C21 witness: the validator has run on an info map in which two dependents
\* declare a range on the same updated package that its new version does not
\* satisfy; one of the two was reported.
C21_Witness ==
    /\ pc = "validated"
    /\ peersErrors
    /\ \E name \in DOMAIN packageInfoMap :
          /\ Cardinality(Violators(packageInfoMap, next[1], name)) = 2
          /\ Cardinality({v \in ReverseLogs : v[2] = name}) = 1

\* the packages whose reverse peer mismatches are tolerated
DeprecatedPackages ==
    {"codelyzer", "@schematics/update", "@angular-devkit/build-ng-packagr", "tsickle",
     "@nguniversal/builders"}

\* lines 159-187 without the test of line 180: <<dependent, package>> where the
\* package has a target that the (extended) range the dependent declares on it
\* does not admit, whoever the dependent is
ReverseMismatches(infoMap, nextFlag) ==
    {<<d, n>> \in (DOMAIN infoMap) \X
                  {m \in DOMAIN infoMap : infoMap[m].target # NoVersion} :
        \E i \in 1..Len(CurrentManifest(d, infoMap[d]).peers) :
           LET peer == CurrentManifest(d, infoMap[d]).peers[i]
           IN /\ peer[1] = n
              /\ ~Satisfies(infoMap[n].target, UpdatePeerVersion(infoMap, n, peer[2]),
                            nextFlag)}

\* C22: a reverse mismatch whose dependent is one of the deprecated packages is
\* not logged and does not set the flag: when the flag is set there is a
\* forward violation or a reverse mismatch of a dependent that is not
\* deprecated, and analyze throws the aggregate error only when the flag is
\* set.
C22_DeprecatedTolerated ==
    /\ ValidatorRan =>
          /\ \A l \in ErrorLogs : l.kind = "reverse" => l.pkg \notin DeprecatedPackages
          /\ peersErrors =>
                \/ ForwardViolations(packageInfoMap, next[1]) # {}
                \/ \E v \in ReverseMismatches(packageInfoMap, next[1]) :
                      v[1] \notin DeprecatedPackages
    /\ thrown.kind = "incompatible_peers" => ValidatorRan /\ peersErrors

\* C22 witness: analyze returned, force being false and the flag not set,
\* although the installed codelyzer declares a range on an updated package that
\* the new version of it does not satisfy.
C22_Witness ==
    /\ pc = "returned"
    /\ force = <<FALSE>>
    /\ ~peersErrors
    /\ \E v \in ReverseMismatches(packageInfoMap, next[1]) :
          v[1] = "codelyzer" /\ v[1] \in DeprecatedPackages

\* lines 85-91: the key under which the table is searched for a package of the
\* info map: the group name of its target, else installed, manifest, or the
\* package name when that manifest names no group
TableKey(infoMap, name) ==
    With(LAMBDA groupName : IF groupName # "" THEN groupName ELSE name,
         PackageGroupName(CurrentManifest(name, infoMap[name])))

\* the range a dependent declares on a package, after the transform the table
\* has for the key of keyed (the literal range when it has none)
ExtendedBy(infoMap, keyed, range) ==
    IF TableKey(infoMap, keyed) \in KnownPeerCompatibleList
    THEN With(AngularMajorCompatGuarantee, ParseRange(range))
    ELSE ParseRange(range)

\* the declared peers <<dependent, package, range>> the reverse check tests
ReversePeers(infoMap) ==
    UNION {{<<d, CurrentManifest(d, infoMap[d]).peers[i][1],
              CurrentManifest(d, infoMap[d]).peers[i][2]>> :
               i \in {k \in 1..Len(CurrentManifest(d, infoMap[d]).peers) :
                         /\ CurrentManifest(d, infoMap[d]).peers[k][1] \in DOMAIN infoMap
                         /\ infoMap[CurrentManifest(d, infoMap[d]).peers[k][1]].target
                               # NoVersion}} :
           d \in DOMAIN infoMap \ IgnoredPackages}

\* the reverse violations when the table is searched by the dependent
ViolationsByDependent(infoMap, nextFlag) ==
    {<<p[1], p[2]>> : p \in {q \in ReversePeers(infoMap) :
        ~Satisfies(infoMap[q[2]].target, ExtendedBy(infoMap, q[1], q[3]), nextFlag)}}

\* the reverse violations when the table is searched by the updated package
ViolationsByDependency(infoMap, nextFlag) ==
    {<<p[1], p[2]>> : p \in {q \in ReversePeers(infoMap) :
        ~Satisfies(infoMap[q[2]].target, ExtendedBy(infoMap, q[2], q[3]), nextFlag)}}

\* C23 (as stated): the reverse check tests the new version of the updated
\* package against the declared range extended with the transform the table
\* has for the group name, else the name, of the dependent package, and
\* against the literal range when the table has no entry for it.
C23_Original ==
    ValidatorRan =>
       \E violations \in {ViolationsByDependent(packageInfoMap, next[1])} :
          /\ ReverseLogs \subseteq violations
          /\ peersErrors <=> \/ violations # {}
                             \/ ForwardViolations(packageInfoMap, next[1]) # {}

\* C23 (amended): the table is searched by the group name, else the name, of
\* the updated package (the peer), read from its target manifest or, when it
\* has no target, its installed one; the range the dependent declares is
\* extended with that transform, or taken literally when the table has no
\* entry for that key, and the new version is tested against the result.
C23_KeyedByUpdatedPackage ==
    ValidatorRan =>
       \E violations \in {ViolationsByDependency(packageInfoMap, next[1])} :
          /\ ReverseLogs \subseteq violations
          /\ peersErrors <=> \/ violations # {}
                             \/ ForwardViolations(packageInfoMap, next[1]) # {}

\* C23 witness: the validator has run and found nothing although a dependent
\* that is in no group and not in the table declares, on an updated package of
\* the core group, a range that literally does not admit the new version.
C23_Witness ==
    /\ pc = "validated"
    /\ ~peersErrors
    /\ \E p \in ReversePeers(packageInfoMap) :
          /\ TableKey(packageInfoMap, p[1]) \notin KnownPeerCompatibleList
          /\ TableKey(packageInfoMap, p[2]) \in KnownPeerCompatibleList
          /\ ~Satisfies(packageInfoMap[p[2]].target, ParseRange(p[3]), next[1])

\* the literal of line 327
MostRecentToken == "next"

\* npmPackageJson['dist-tags'][tag], undefined when the metadata has no such tag
Tagged(name, tag) == IF tag \in DOMAIN DistTags(name) THEN DistTags(name)[tag] ELSE NoVersion

\* lines 334-349: a resolved version is kept as the target when it is greater
\* than the installed version
KeptTarget(version, installed) ==
    IF version # NoVersion /\ VGt(version, installed) THEN version ELSE NoVersion

\* C24: for a package of the info map with a specifier in the request map the
\* requested version is the tagged version when the specifier names a dist-tag
\* of the package; else the version of the latest dist-tag when the specifier
\* is the literal 'next'; else the maximum published version that satisfies
\* the specifier read as a range.  (It becomes the target when it is greater
\* than the installed version.)
C24_ResolutionOrder ==
    \A name \in DOMAIN packageInfoMap \cap DOMAIN packages :
       \E token \in {packages[name]}, info \in {packageInfoMap[name]} :
          token # "" =>
             IF token \in DOMAIN DistTags(name)
             THEN info.target = KeptTarget(DistTags(name)[token], info.installed)
             ELSE IF token = MostRecentToken
             THEN info.target = KeptTarget(Tagged(name, "latest"), info.installed)
             ELSE info.target = KeptTarget(MaxSatisfying(Versions(name), ParseRange(token)),
                                           info.installed)

\* C24 witness: analyze returned an info map in which core, requested at
\* 'next', has the version of its next dist-tag as target, and common, which
\* has no such tag and was requested at 'next' too, has the version of its
\* latest dist-tag.
C24_Witness ==
    /\ pc = "returned"
    /\ \E name \in DOMAIN packageInfoMap \cap DOMAIN packages :
          /\ packages[name] = MostRecentToken
          /\ MostRecentToken \in DOMAIN DistTags(name)
          /\ packageInfoMap[name].target = DistTags(name)[MostRecentToken]
          /\ packageInfoMap[name].target # Tagged(name, "latest")
    /\ \E name \in DOMAIN packageInfoMap \cap DOMAIN packages :
          /\ packages[name] = MostRecentToken
          /\ MostRecentToken \notin DOMAIN DistTags(name)
          /\ packageInfoMap[name].target # NoVersion
          /\ packageInfoMap[name].target = Tagged(name, "latest")

\* C25: every PackageInfo of the info map that has a target has a target
\* version strictly greater than its installed version; when the specifier of
\* the package resolves to a version less than or equal to the installed one
\* the PackageInfo has no target.
C25_TargetAboveInstalled ==
    \A name \in DOMAIN packageInfoMap :
       \E info \in {packageInfoMap[name]}, requested \in {RequestedTarget(packages, name)} :
          /\ info.target # NoVersion =>
                /\ VGt(info.target, info.installed)
                /\ info.target = requested
          /\ (requested # NoVersion /\ VLte(requested, info.installed)) =>
                info.target = NoVersion

\* C25 witness: analyze returned the PackageInfo of a package whose specifier
\* resolves to a published version below the installed one, without a target.
C25_Witness ==
    /\ pc = "returned"
    /\ \E name \in DOMAIN packageInfoMap :
          /\ RequestedTarget(packages, name) # NoVersion
          /\ VLt(RequestedTarget(packages, name), packageInfoMap[name].installed)
          /\ packageInfoMap[name].target = NoVersion

\* the specifier of a package names a tag that its metadata does not have: it
\* is not a range, not among the dist-tags, and when it is 'next' there is no
\* latest tag either
TagAbsent(name, token) ==
    /\ token # ""
    /\ ~ValidRange(ParseRange(token))
    /\ token \notin DOMAIN DistTags(name)
    /\ token = MostRecentToken => "latest" \notin DOMAIN DistTags(name)

\* C26 (as stated): when the tag a specifier names is absent from the metadata
\* the resolver still ends with a target, the highest published version its
\* range-based search finds, whenever a version above the installed one is
\* published.
C26_Original ==
    \A name \in DOMAIN packageInfoMap \cap DOMAIN packages :
       (/\ TagAbsent(name, packages[name])
        /\ \E v \in Versions(name) : VGt(v, packageInfoMap[name].installed))
          => /\ packageInfoMap[name].target # NoVersion
             /\ packageInfoMap[name].target \in Versions(name)

\* C26 (amended): a specifier that is not a dist-tag of the package and is not
\* 'next' is handed to semver.maxSatisfying, which finds nothing for a tag
\* name; the specifier 'next' is never searched as a range: without a next tag
\* it resolves to the latest tag, and to nothing when that is absent too.  A
\* specifier that names an absent tag therefore ends with no target.
C26_AbsentTagNoTarget ==
    \A name \in DOMAIN packageInfoMap \cap DOMAIN packages :
       \E token \in {packages[name]}, info \in {packageInfoMap[name]} :
          /\ (token # "" /\ token \notin DOMAIN DistTags(name)) =>
                IF token = MostRecentToken
                THEN info.target = KeptTarget(Tagged(name, "latest"), info.installed)
                ELSE info.target = KeptTarget(MaxSatisfying(Versions(name), ParseRange(token)),
                                              info.installed)
          /\ TagAbsent(name, token) => info.target = NoVersion

\* C26 witness: analyze returned the PackageInfo of a package requested at a
\* tag its metadata does not have, without a target although a version above
\* the installed one is published.
C26_Witness ==
    /\ pc = "returned"
    /\ \E name \in DOMAIN packageInfoMap \cap DOMAIN packages :
          /\ TagAbsent(name, packages[name])
          /\ \E v \in Versions(name) : VGt(v, packageInfoMap[name].installed)
          /\ packageInfoMap[name].target = NoVersion

\* the packages of the request map whose specifier is empty
EmptyRequests(pkgs) == {n \in DOMAIN pkgs : pkgs[n] = ""}

\* C27 (as stated): a package of the info map that is in the request map with
\* an empty specifier has the latest published release as target when that is
\* greater than its installed version.
C27_Original ==
    pc = "returned" =>
       \A name \in DOMAIN packageInfoMap \cap EmptyRequests(packages) :
          packageInfoMap[name].target =
             KeptTarget(MaxSatisfying(Versions(name), ParseRange("")),
                        packageInfoMap[name].installed)

\* C27 (amended): an empty specifier is a falsy map value, which the code
\* treats like no request: the group step and the peer step of such a package
\* return at once (lines 369-372 and 436-439), changing nothing, logging
\* nothing and raising nothing, and its PackageInfo has no target.
C27_EmptySpecifierIgnored ==
    /\ [](\A name \in DOMAIN packageInfoMap \cap EmptyRequests(packages) :
             packageInfoMap[name].target = NoVersion)
    /\ [][(pc \in {"group", "peers"} /\ universe[idx] \in EmptyRequests(packages)) =>
             /\ packages' = packages
             /\ logged' = logged
             /\ pc' # "failed"
             /\ thrown' = thrown]_vars

\* C27 witness: analyze returned with the request map it was given, in which
\* core has an empty specifier; core has a PackageInfo without target although
\* a release above the installed one is published, and common, which the
\* workspace declares and the group of core names, was not added.
C27_Witness ==
    /\ pc = "returned"
    /\ packages = packages0
    /\ "core" \in EmptyRequests(packages) \cap DOMAIN packageInfoMap
    /\ packageInfoMap["core"].target = NoVersion
    /\ VGt(Tagged("core", "latest"), packageInfoMap["core"].installed)
    /\ "common" \in DOMAIN allDependencies \ DOMAIN packages
    /\ "common" \in GroupMembers([n \in {"core"} |-> "latest"], "core")

\* C28 (as stated): within one analyze call the registry manifest of the
\* target version of a package is asked of the provider at most once.
C28_Original == \A name \in AllNames : manifestFetches[name] <= 1

\* C28 (amended): nothing is cached.  Every _buildPackageInfo call that
\* resolves a target asks the provider for its manifest again: one call in the
\* group step and one in the peer step of each pass in which the package is in
\* the request map, and one for the final info map.  A package returned with a
\* target was asked for an odd number of times, at least three; a package
\* returned without target was never asked for.
C28_FetchedPerVisit ==
    /\ [](pc = "returned" =>
             \A name \in DOMAIN packageInfoMap :
                IF packageInfoMap[name].target = NoVersion
                THEN manifestFetches[name] = 0
                ELSE manifestFetches[name] >= 3 /\ manifestFetches[name] % 2 = 1)
    /\ [][manifestFetches' # manifestFetches =>
             /\ pc \in {"group", "peers", "build"}
             /\ manifestFetches' =
                   [manifestFetches EXCEPT ![universe[idx]] = @ + 1]]_vars

\* C28 witness: analyze returned after two passes of the loop; the manifest of
\* the target version of a requested package was asked for five times.
C28_Witness ==
    /\ pc = "returned"
    /\ \E name \in DOMAIN packageInfoMap \cap DOMAIN packages0 :
          /\ packageInfoMap[name].target # NoVersion
          /\ manifestFetches[name] = 5

\* the names of the initial batch whose getRegistryMetadata call gave metadata
Succeeded == {n \in DOMAIN fetched : fetched[n]}

\* C29: the keys of the info map analyze returns are exactly the names of the
\* initial batch whose metadata fetch succeeded.  That set is the universe,
\* fixed when the loop starts; the info map only ever holds packages of it and
\* only the final construction adds to it; a package the expansion adds to the
\* request map that is outside it has no PackageInfo.
C29_InfoMapKeys ==
    /\ [](pc = "returned" =>
             /\ DOMAIN packageInfoMap = Succeeded
             /\ Succeeded \subseteq Batch
             /\ \A name \in DOMAIN packages \ DOMAIN packages0 :
                   name \in DOMAIN packageInfoMap <=> name \in Succeeded)
    /\ [](~BeforeLoop => UniverseSet = Succeeded)
    /\ [](DOMAIN packageInfoMap \subseteq UniverseSet)
    /\ [][InLoop => universe' = universe /\ packageInfoMap' = packageInfoMap]_vars
    /\ [][packageInfoMap' # packageInfoMap =>
             /\ pc = "build"
             /\ DOMAIN packageInfoMap' = DOMAIN packageInfoMap \cup {universe[idx]}]_vars

\* C29 witness: analyze returned; the expansion had added a package whose
\* metadata was fetched (it has a PackageInfo) and a peer outside the batch (it
\* has none), and a package of the batch whose fetch failed has none either.
C29_Witness ==
    /\ pc = "returned"
    /\ (DOMAIN packages \ DOMAIN packages0) \cap DOMAIN packageInfoMap # {}
    /\ (DOMAIN packages \ DOMAIN packages0) \ Batch # {}
    /\ FailedFetches # {}
    /\ FailedFetches \cap DOMAIN packageInfoMap = {}

\* the non-null results of the batch, in the order of the requests
RequestOrder == SelectSeq(InitialDepsToFetch(packages0, allDependencies), LAMBDA n : fetched[n])

\* two calls of the batch settled in the opposite order of their requests
SettledOutOfOrder ==
    \E i, j \in 1..Len(settled) :
       /\ i < j
       /\ \E a, b \in 1..Len(InitialDepsToFetch(packages0, allDependencies)) :
             /\ a > b
             /\ InitialDepsToFetch(packages0, allDependencies)[a] = settled[i]
             /\ InitialDepsToFetch(packages0, allDependencies)[b] = settled[j]

\* C30: whatever the order in which the calls of the batch settle, the
\* universe that is built when the last one has settled holds the non-null
\* results in the order of the requests, it is scanned in that order, and the
\* request map, the info map or the error analyze ends with are those the
\* arguments and the results determine.
C30_OrderIndependent ==
    /\ [][(pc = "fetching" /\ pc' # "fetching") => universe' = RequestOrder]_vars
    /\ [](~BeforeLoop => universe = RequestOrder)
    /\ [](pc \in {"group", "peers", "build"} => idx \in 1..Len(RequestOrder))
    /\ [](Done =>
             \E r \in {Resolution(packages0, allDependencies, fetched)} :
                IF r.err # ""
                THEN pc = "failed" /\ thrown = Error(r.err, r.name)
                ELSE packages = r.packages /\ packageInfoMap = r.infoMap)

\* C30 witness: every call of a batch of three, made for a request map that is
\* not empty, has settled, the last requested first, and two of them gave
\* metadata; the universe is about to be built.
C30_Witness ==
    /\ pc = "fetching"
    /\ pending = {}
    /\ Size(packages0) > 0
    /\ Len(settled) = 3
    /\ settled[1] = InitialDepsToFetch(packages0, allDependencies)[3]
    /\ SettledOutOfOrder
    /\ Len(RequestOrder) >= 2
    /\ RequestOrder # SelectSeq(settled, LAMBDA n : fetched[n])

====
